---- MODULE Spec2Model ----
(***************************************************************************)
(* A model of the multithreaded caching proxy server (proxy_server.c,      *)
(* proxy_parse.c): the bounded task queue with its acceptor and worker     *)
(* pool, the LRU response cache, request dispatch with the blacklist, and  *)
(* the CONNECT tunnel.                                                     *)
(***************************************************************************)
EXTENDS Integers, Sequences, FiniteSets, TLC

(***************************************************************************)
(* Bounds of the model.                                                    *)
(***************************************************************************)
\* g_thread_pool_size: the number of worker threads (8 by default).
NWorkers == 2
\* Capacity of the task queue (100 in the source), scaled down.
MAX_CLIENTS == 2
\* How many connections accept() hands out in one run.
MaxConns == 3
\* g_max_cache_size, in bytes (200 MB by default), scaled down.
g_max_cache_size == 3
\* g_max_element_size, in bytes (10 MB by default), scaled down.
g_max_element_size == 2
\* CACHE_HASHTABLE_SIZE (1024 in the source), scaled down so that chains form.
CACHE_HASHTABLE_SIZE == 2
\* How many requests the clients send in one run.
MaxRequests == 4
\* MAX_REQUEST_LEN, the size of the request buffer, of new_request and of the
\* tunnel's buffer (8192 in the source), scaled down.
MAX_REQUEST_LEN == 64
\* How many bytes the two sides of a tunnel send in all before they close.
MaxTunnelBytes == 3
\* Length of the longest path in a request line.
LongPathLen == 20
\* How many connections accept() hands out in one run of the three mutexes.
MaxLockConns == 2

VARIABLES
    \* ---- signal handling / task queue / thread pool (proxy_server.c 201-316)
    server_running,   \* volatile sig_atomic_t server_running
    sockets,          \* task_queue.sockets[0 .. capacity-1]
    q_size,           \* task_queue.size
    q_head,           \* task_queue.head
    q_tail,           \* task_queue.tail
    q_lock,           \* owner of task_queue.lock, or Unlocked
    not_empty,        \* threads blocked in pthread_cond_wait(&not_empty)
    not_full,         \* threads blocked in pthread_cond_wait(&not_full)
    a_pc,             \* position of the main (acceptor) thread
    a_sock,           \* main's local client_socket
    a_join,           \* main's join loop index i (1-based)
    w_pc,             \* position of each worker thread
    w_sock,           \* each worker's local client_socket
    accepted,         \* number of connections accept() has returned
    enq_hist,         \* history: descriptors passed to enqueue_task
    deq_hist,         \* history: descriptors returned by dequeue_task
    closed,           \* history: descriptors closed by workers
    \* ---- LRU cache (proxy_server.c 114-198)
    heap,             \* the CacheNode objects, by address
    allocated,        \* addresses of the CacheNodes that are malloc'ed
    c_table,          \* cache->table[0 .. table_size-1]
    c_head,           \* cache->head (MRU)
    c_tail,           \* cache->tail (LRU)
    c_size,           \* cache->size
    c_lock,           \* owner of cache->lock, or Unlocked
    \* ---- one request in a worker (proxy_server.c 318-470)
    requests,         \* the requests clients may send, as bytes (environment)
    malloc_fails,     \* whether malloc and strdup may return NULL (environment)
    c_capacity,       \* cache->capacity, g_max_cache_size as configured
    h_pc,             \* position of each worker inside handle_request
    h_buffer,         \* buffer[0 .. bytes_read-1], what recv returned
    h_ret,            \* the return value of ParsedRequest_parse
    h_req,            \* req: the ParsedRequest being served
    h_new_request,    \* the bytes of new_request sent to the origin
    h_key,            \* cache_key
    h_item,           \* cached_item, the CacheNode* get_from_cache returned
    h_resp,           \* the bytes the origin sends for this request
    h_buf,            \* response_buffer[0 .. total_response_size-1]
    h_client,         \* the bytes sent to the client socket for this request
    h_did,            \* history: what the worker did for this request
    n_req,            \* history: number of requests taken so far
    access_order,     \* history: resident nodes, the latest accessed first
    insert_order,     \* history: resident nodes, the latest inserted first
    evict_note,       \* history: was the last victim the oldest insertion?
    last_put,         \* history: per key, the last insertion still resident
    \* ---- CONNECT tunnel (proxy_server.c 408-470)
    t_remote,         \* remote_socket: "none", "open", "closed" or "bad_close"
    t_activity,       \* activity, the last return value of select()
    t_bytes,          \* bytes, the last return value of recv()
    t_sent,           \* the last return value of send()
    t_ready,          \* the sockets select() reported readable
    t_c_read,         \* history: bytes recv'ed from the client, in order
    t_o_sent,         \* history: bytes the origin socket accepted, in order
    t_o_read,         \* history: bytes recv'ed from the origin, in order
    t_c_sent,         \* history: bytes the client socket accepted, in order
    \* ---- the three mutexes, thread by thread (proxy_server.c 49-62, 164-316)
    m_owner,          \* owner of each pthread_mutex_t, or Unlocked
    l_pc,             \* position of each thread between its mutex calls
    l_ret,            \* where each thread continues when log_message returns
    l_size,           \* task_queue.size
    l_not_empty,      \* threads blocked in pthread_cond_wait(&not_empty)
    l_not_full,       \* threads blocked in pthread_cond_wait(&not_full)
    l_accepted,       \* number of connections accept() has returned
    l_items,          \* data_size of the cached nodes, from head to tail
    l_data_size       \* each worker's data_size argument of put_in_cache

qvars == <<server_running, sockets, q_size, q_head, q_tail, q_lock, not_empty,
           not_full, a_pc, a_sock, a_join, w_pc, w_sock, accepted, enq_hist,
           deq_hist, closed>>

cvars == <<heap, allocated, c_table, c_head, c_tail, c_size, c_lock,
           access_order, insert_order, evict_note, last_put>>

lvars == <<m_owner, l_pc, l_ret, l_size, l_not_empty, l_not_full, l_accepted,
           l_items, l_data_size>>

hvars == <<requests, malloc_fails, c_capacity, lvars, h_pc, h_buffer, h_ret,
           h_req, h_new_request, h_key, h_item, h_resp, h_buf, h_client, h_did,
           n_req>>

tvars == <<t_remote, t_activity, t_bytes, t_sent, t_ready, t_c_read, t_o_sent,
           t_o_read, t_c_sent>>

vars == <<qvars, cvars, hvars, tvars>>

\* The variables of a request being served, without the environment.
svars == <<h_pc, h_buffer, h_ret, h_req, h_new_request, h_key, h_item, h_resp,
           h_buf, h_client, h_did, n_req>>

Workers == 1 .. NWorkers
\* Thread id of main(); workers are 1 .. NWorkers.
Main == NWorkers + 1
\* A mutex nobody holds (pthread_mutex_init).
Unlocked == 0
\* An int slot that was never written (malloc'ed memory).
Unwritten == 0

Min(a, b) == IF a < b THEN a ELSE b

IsPrefix(s, t) == Len(s) <= Len(t) /\ SubSeq(t, 1, Len(s)) = s

\* seq without the element x
Without(seq, x) == SelectSeq(seq, LAMBDA y : y # x)

(***************************************************************************)
(* Task queue                                                              *)
(***************************************************************************)
init_task_queue ==
    /\ sockets = [i \in 0 .. MAX_CLIENTS - 1 |-> Unwritten]
    /\ q_size = 0
    /\ q_head = 0
    /\ q_tail = 0
    /\ q_lock = Unlocked
    /\ not_empty = {}
    /\ not_full = {}

\* while (task_queue.size == task_queue.capacity)
QueueFullOffByOne == q_size = MAX_CLIENTS + 1
QueueFull == q_size = MAX_CLIENTS

\* task_queue.tail = (task_queue.tail + 1) % task_queue.capacity
NextTail(t) == (t + 1) % MAX_CLIENTS

\* task_queue.head = (task_queue.head + 1) % task_queue.capacity
NextHeadStuck(h) == h
NextHead(h) == (h + 1) % MAX_CLIENTS

\* enqueue_task(client_socket), called by main.  The mutex makes the body
\* atomic: either the thread starts waiting on not_full (releasing the
\* mutex), or it writes the slot, signals not_empty and unlocks.
EnqueueTask ==
    /\ UNCHANGED <<cvars, hvars, tvars>>
    /\ a_pc \in {"enqueue", "enq_woken"}
    /\ q_lock = Unlocked
    /\ IF QueueFull
       THEN /\ a_pc' = "enq_wait"
            /\ not_full' = not_full \cup {Main}
            /\ UNCHANGED <<sockets, q_size, q_tail, not_empty, w_pc, enq_hist>>
       ELSE /\ sockets' = [sockets EXCEPT ![q_tail] = a_sock]
            /\ q_tail' = NextTail(q_tail)
            /\ q_size' = q_size + 1
            /\ enq_hist' = Append(enq_hist, a_sock)
            \* pthread_cond_signal(&not_empty): wakes one waiter, if any
            /\ IF not_empty = {}
               THEN UNCHANGED <<not_empty, w_pc>>
               ELSE \E w \in not_empty :
                        /\ not_empty' = not_empty \ {w}
                        /\ w_pc' = [w_pc EXCEPT ![w] = "woken"]
            /\ a_pc' = "loop"
            /\ UNCHANGED not_full
    /\ UNCHANGED <<server_running, q_head, q_lock, a_sock, a_join, w_sock,
                   accepted, deq_hist, closed>>

\* if (!server_running && task_queue.size == 0) return -1;
\* (faulty variant: the queue is not looked at)
ShutdownResultIgnoresQueue == server_running = 0
ShutdownResult == server_running = 0 /\ q_size = 0

\* dequeue_task(), from taking the mutex (on entry or when pthread_cond_wait
\* returns) to the next point where the thread lets go of it.  The loop test
\* reads server_running, which the signal handler writes without the mutex,
\* so the decision to wait and the wait itself are separate steps.
DequeueTask(w) ==
    /\ UNCHANGED <<cvars, hvars, tvars>>
    /\ w_pc[w] \in {"dequeue", "woken"}
    /\ q_lock = Unlocked
    /\ IF q_size = 0 /\ server_running = 1
       THEN /\ w_pc' = [w_pc EXCEPT ![w] = "prewait"]
            /\ q_lock' = w
            /\ UNCHANGED <<q_head, q_size, not_full, a_pc, w_sock, deq_hist>>
       ELSE IF ShutdownResult
       THEN \* return -1; the worker breaks out of its loop and returns
            /\ w_pc' = [w_pc EXCEPT ![w] = "exited"]
            /\ UNCHANGED <<q_head, q_size, q_lock, not_full, a_pc, w_sock,
                           deq_hist>>
       ELSE /\ w_sock' = [w_sock EXCEPT ![w] = sockets[q_head]]
            /\ deq_hist' = Append(deq_hist, sockets[q_head])
            /\ q_head' = NextHead(q_head)
            /\ q_size' = q_size - 1
            \* pthread_cond_signal(&not_full)
            /\ IF Main \in not_full
               THEN not_full' = not_full \ {Main} /\ a_pc' = "enq_woken"
               ELSE UNCHANGED <<not_full, a_pc>>
            /\ w_pc' = [w_pc EXCEPT ![w] = "handle"]
            /\ UNCHANGED q_lock
    /\ UNCHANGED <<server_running, sockets, q_tail, not_empty, a_sock, a_join,
                   accepted, enq_hist, closed>>

\* pthread_cond_wait(&task_queue.not_empty, &task_queue.lock): release the
\* mutex and block, atomically.
CondWaitNotEmpty(w) ==
    /\ UNCHANGED <<cvars, hvars, tvars>>
    /\ w_pc[w] = "prewait"
    /\ w_pc' = [w_pc EXCEPT ![w] = "waiting"]
    /\ not_empty' = not_empty \cup {w}
    /\ q_lock' = Unlocked
    /\ UNCHANGED <<server_running, sockets, q_size, q_head, q_tail, not_full,
                   a_pc, a_sock, a_join, w_sock, accepted, enq_hist, deq_hist,
                   closed>>

\* POSIX lets pthread_cond_wait return without a signal.
SpuriousWakeupWorker(w) ==
    /\ UNCHANGED <<cvars, hvars, tvars>>
    /\ w_pc[w] = "waiting"
    /\ w_pc' = [w_pc EXCEPT ![w] = "woken"]
    /\ not_empty' = not_empty \ {w}
    /\ UNCHANGED <<server_running, sockets, q_size, q_head, q_tail, q_lock,
                   not_full, a_pc, a_sock, a_join, w_sock, accepted, enq_hist,
                   deq_hist, closed>>

SpuriousWakeupMain ==
    /\ UNCHANGED <<cvars, hvars, tvars>>
    /\ a_pc = "enq_wait"
    /\ a_pc' = "enq_woken"
    /\ not_full' = not_full \ {Main}
    /\ UNCHANGED <<server_running, sockets, q_size, q_head, q_tail, q_lock,
                   not_empty, a_sock, a_join, w_pc, w_sock, accepted, enq_hist,
                   deq_hist, closed>>

(***************************************************************************)
(* Signal handler, main's accept loop and shutdown                         *)
(***************************************************************************)
\* signal_handler(SIGINT | SIGTERM)
signal_handler ==
    /\ UNCHANGED <<cvars, hvars, tvars>>
    /\ server_running = 1
    /\ server_running' = 0
    /\ UNCHANGED <<sockets, q_size, q_head, q_tail, q_lock, not_empty,
                   not_full, a_pc, a_sock, a_join, w_pc, w_sock, accepted,
                   enq_hist, deq_hist, closed>>

\* while (server_running)
MainLoopTest ==
    /\ UNCHANGED <<cvars, hvars, tvars>>
    /\ a_pc = "loop"
    /\ a_pc' = IF server_running = 1 THEN "accept" ELSE "shutdown"
    /\ UNCHANGED <<server_running, sockets, q_size, q_head, q_tail, q_lock,
                   not_empty, not_full, a_sock, a_join, w_pc, w_sock,
                   accepted, enq_hist, deq_hist, closed>>

\* accept() returns a new client socket
AcceptConn ==
    /\ UNCHANGED <<cvars, hvars, tvars>>
    /\ a_pc = "accept"
    /\ accepted < MaxConns
    /\ accepted' = accepted + 1
    /\ a_sock' = accepted + 1
    /\ a_pc' = "enqueue"
    /\ UNCHANGED <<server_running, sockets, q_size, q_head, q_tail, q_lock,
                   not_empty, not_full, a_join, w_pc, w_sock, enq_hist,
                   deq_hist, closed>>

\* accept() returns -1 with EINTR after the flag was cleared: break
AcceptInterrupted ==
    /\ UNCHANGED <<cvars, hvars, tvars>>
    /\ a_pc = "accept"
    /\ server_running = 0
    /\ a_pc' = "shutdown"
    /\ UNCHANGED <<server_running, sockets, q_size, q_head, q_tail, q_lock,
                   not_empty, not_full, a_sock, a_join, w_pc, w_sock,
                   accepted, enq_hist, deq_hist, closed>>

\* accept() returns -1 otherwise: log and continue
AcceptFailed ==
    /\ UNCHANGED <<cvars, hvars, tvars>>
    /\ a_pc = "accept"
    /\ a_pc' = "loop"
    /\ UNCHANGED <<server_running, sockets, q_size, q_head, q_tail, q_lock,
                   not_empty, not_full, a_sock, a_join, w_pc, w_sock,
                   accepted, enq_hist, deq_hist, closed>>

\* log "Shutting down server..."; pthread_cond_broadcast(&not_empty), which
\* main calls without holding task_queue.lock
MainBroadcast ==
    /\ UNCHANGED <<cvars, hvars, tvars>>
    /\ a_pc = "shutdown"
    /\ w_pc' = [w \in Workers |-> IF w \in not_empty THEN "woken" ELSE w_pc[w]]
    /\ not_empty' = {}
    /\ a_pc' = "join"
    /\ a_join' = 1
    /\ UNCHANGED <<server_running, sockets, q_size, q_head, q_tail, q_lock,
                   not_full, a_sock, w_sock, accepted, enq_hist, deq_hist,
                   closed>>

\* pthread_join(threads[i], NULL)
MainJoin ==
    /\ UNCHANGED <<cvars, hvars, tvars>>
    /\ a_pc = "join"
    /\ a_join <= NWorkers
    /\ w_pc[a_join] = "exited"
    /\ a_join' = a_join + 1
    /\ UNCHANGED <<server_running, sockets, q_size, q_head, q_tail, q_lock,
                   not_empty, not_full, a_pc, a_sock, w_pc, w_sock, accepted,
                   enq_hist, deq_hist, closed>>

\* close(server_fd); log "Server shut down cleanly."; return 0
MainExit ==
    /\ UNCHANGED <<cvars, hvars, tvars>>
    /\ a_pc = "join"
    /\ a_join > NWorkers
    /\ a_pc' = "done"
    /\ UNCHANGED <<server_running, sockets, q_size, q_head, q_tail, q_lock,
                   not_empty, not_full, a_sock, a_join, w_pc, w_sock,
                   accepted, enq_hist, deq_hist, closed>>

(***************************************************************************)
(* Worker thread                                                           *)
(***************************************************************************)
\* handle_request(client_socket), seen from the queue: it touches neither
\* the queue nor the flag and returns.
WorkerHandle(w) ==
    /\ UNCHANGED <<cvars, hvars, tvars>>
    /\ w_pc[w] = "handle"
    /\ w_pc' = [w_pc EXCEPT ![w] = "close"]
    /\ UNCHANGED <<server_running, sockets, q_size, q_head, q_tail, q_lock,
                   not_empty, not_full, a_pc, a_sock, a_join, w_sock,
                   accepted, enq_hist, deq_hist, closed>>

\* close(client_socket), back to the top of while (1)
WorkerClose(w) ==
    /\ UNCHANGED <<cvars, hvars, tvars>>
    /\ w_pc[w] = "close"
    /\ closed' = Append(closed, w_sock[w])
    /\ w_pc' = [w_pc EXCEPT ![w] = "dequeue"]
    /\ UNCHANGED <<server_running, sockets, q_size, q_head, q_tail, q_lock,
                   not_empty, not_full, a_pc, a_sock, a_join, w_sock,
                   accepted, enq_hist, deq_hist>>

(***************************************************************************)
(* Strings, requests and origin responses                                  *)
(***************************************************************************)
\* A null pointer (CacheNode* or char*).
NULL == 0
\* A char* that is NULL; C strings hold no 0 byte, so no string equals it.
NullStr == <<0>>

\* GET http://<host>/ HTTP/1.0 as ParsedRequest_parse leaves it: no port,
\* path "/".
Get(host) ==
    [method |-> <<71, 69, 84>>, host |-> host, port |-> NullStr, path |-> <<47>>,
     version |-> <<72, 84, 84, 80, 47, 49, 46, 48>>]

\* CONNECT <host>:443 as ParsedRequest_parse leaves it.
Connect(host) ==
    [method |-> <<67, 79, 78, 78, 69, 67, 84>>, host |-> host,
     port |-> <<52, 52, 51>>, path |-> NullStr,
     version |-> <<72, 84, 84, 80, 47, 49, 46, 49>>]

\* The parsed GET requests clients send: hosts "a", "b", "c" and "ax".
GetRequests == {Get(h) : h \in {<<97>>, <<98>>, <<99>>, <<97, 120>>}}

\* The parsed CONNECT requests clients send: hosts "a" and "ax", port "443".
ConnectRequests == {Connect(h) : h \in {<<97>>, <<97, 120>>}}

\* What an origin may send before it closes: L bytes of value L, for every
\* length from nothing to one byte more than the element cap.
Responses == {[i \in 1 .. L |-> L] : L \in 0 .. g_max_element_size + 1}

\* "HTTP/1.1 403 Forbidden\r\nContent-Length: 0\r\n\r\n"
\* (one byte the origins of the model never send stands for it)
Forbidden == <<403>>
\* "HTTP/1.1 200 Connection established\r\n\r\n"
Established == <<200>>
\* Bytes that come from reading freed memory.
Garbage == <<255>>

\* blacklist[0 .. blacklist_count-1] as load_blacklist leaves it: non-empty
\* lines of blacklist.txt, here the single entry "x".
blacklist == << <<120>> >>

\* strstr(haystack, needle) != NULL, scanning the start positions in order
RECURSIVE strstr_from(_, _, _)
strstr_from(haystack, needle, i) ==
    IF i + Len(needle) - 1 > Len(haystack) THEN FALSE
    ELSE IF SubSeq(haystack, i, i + Len(needle) - 1) = needle THEN TRUE
    ELSE strstr_from(haystack, needle, i + 1)

\* (faulty variant: a match at the first position only)
strstr_prefix_only(haystack, needle) ==
    /\ Len(needle) <= Len(haystack)
    /\ SubSeq(haystack, 1, Len(needle)) = needle
strstr(haystack, needle) == strstr_from(haystack, needle, 1)

\* is_blacklisted(host)
RECURSIVE is_blacklisted_from(_, _)
is_blacklisted_from(host, i) ==
    IF i > Len(blacklist) THEN FALSE
    ELSE IF strstr(host, blacklist[i]) THEN TRUE
    ELSE is_blacklisted_from(host, i + 1)

is_blacklisted(host) ==
    IF host = NullStr THEN FALSE ELSE is_blacklisted_from(host, 1)

(***************************************************************************)
(* ParsedRequest_parse (proxy_parse.c)                                     *)
(***************************************************************************)
\* "GET"
GET == <<71, 69, 84>>
\* "CONNECT"
CONNECT == <<67, 79, 78, 78, 69, 67, 84>>
\* "/"
Slash == <<47>>
\* "://"
SchemeMark == <<58, 47, 47>>

\* s + strspn(s + i - 1, delims): the first position from i on whose
\* character is not in delims, Len(s) + 1 if there is none
RECURSIVE strspn_from(_, _, _)
strspn_from(s, delims, i) ==
    IF i > Len(s) THEN i
    ELSE IF s[i] \in delims THEN strspn_from(s, delims, i + 1)
    ELSE i

\* the first position from i on whose character is in delims, Len(s) + 1 if
\* there is none
RECURSIVE strcspn_from(_, _, _)
strcspn_from(s, delims, i) ==
    IF i > Len(s) THEN i
    ELSE IF s[i] \in delims THEN i
    ELSE strcspn_from(s, delims, i + 1)

\* strtok on the string s that remains to be scanned: leading delimiters are
\* skipped; with nothing left the token is NULL; otherwise the token runs to
\* the next delimiter, which is overwritten by '\0', and the scan resumes
\* after it.  strtok(NULL, delims) is strtok(rest, delims).
strtok_scan(s, delims) ==
    LET b == strspn_from(s, delims, 1) IN
    IF b > Len(s) THEN [token |-> NullStr, rest |-> <<>>]
    ELSE LET e == strcspn_from(s, delims, b) IN
         [token |-> SubSeq(s, b, e - 1),
          rest  |-> IF e > Len(s) THEN <<>> ELSE SubSeq(s, e + 1, Len(s))]

\* (the string is evaluated once, then scanned)
strtok(s, delims) == CHOOSE r \in {strtok_scan(str, delims) : str \in {s}} : TRUE

\* strstr(haystack, needle) - haystack + 1 from position i on, or 0 for NULL
RECURSIVE strstr_scan(_, _, _)
strstr_scan(haystack, needle, i) ==
    IF i + Len(needle) - 1 > Len(haystack) THEN 0
    ELSE IF SubSeq(haystack, i, i + Len(needle) - 1) = needle THEN i
    ELSE strstr_scan(haystack, needle, i + 1)

\* strstr(haystack, needle) - haystack + 1, or 0 for NULL
strstr_at(haystack, needle) ==
    CHOOSE r \in {strstr_scan(str, needle, 1) : str \in {haystack}} : TRUE

\* strchr(s, c) - s + 1, or 0 for NULL
strchr_scan(s, c) ==
    LET i == strcspn_from(s, {c}, 1) IN IF i > Len(s) THEN 0 ELSE i

strchr(s, c) == CHOOSE r \in {strchr_scan(str, c) : str \in {s}} : TRUE

\* The struct as ParsedRequest_create leaves it (memset 0).
NoRequest ==
    [method |-> NullStr, host |-> NullStr, port |-> NullStr, path |-> NullStr,
     version |-> NullStr]

\* ParsedRequest_parse(parse, buf, buflen): the return value and the fields
\* of *parse.
ParsedRequest_parse(buf) ==
    IF Len(buf) < 4 THEN [ret |-> 0 - 1, req |-> NoRequest]
    ELSE
    LET request_line == strtok(buf, {13, 10}).token IN
    IF request_line = NullStr THEN [ret |-> 0 - 1, req |-> NoRequest]
    ELSE
    LET m == strtok(request_line, {32})
        u == strtok(m.rest, {32})
        v == strtok(u.rest, {})
        method  == m.token
        uri     == u.token
        version == v.token
    IN
    IF method = NullStr \/ uri = NullStr \/ version = NullStr
    THEN [ret |-> 0 - 1, req |-> NoRequest]
    ELSE
    LET parsed == [NoRequest EXCEPT !.method = method, !.version = version] IN
    IF method = CONNECT
    THEN LET h == strtok(uri, {58})
             p == strtok(h.rest, {})
         IN  \* if (host) ...; if (port) ...; return 0
             [ret |-> 0,
              req |-> [parsed EXCEPT !.host = h.token, !.port = p.token]]
    ELSE IF method # GET THEN [ret |-> 0 - 1, req |-> parsed]
    ELSE
    LET mark    == strstr_at(uri, SchemeMark)
        uri_ptr == IF mark # 0 THEN SubSeq(uri, mark + 3, Len(uri)) ELSE uri
        path_at == strchr(uri_ptr, 47)
        host0   == IF path_at = 0 THEN uri_ptr
                   ELSE SubSeq(uri_ptr, 1, path_at - 1)
        path    == IF path_at = 0 THEN Slash
                   ELSE SubSeq(uri_ptr, path_at, Len(uri_ptr))
        port_at == strchr(host0, 58)
        host    == IF port_at = 0 THEN host0 ELSE SubSeq(host0, 1, port_at - 1)
        port    == IF port_at = 0 THEN NullStr
                   ELSE SubSeq(host0, port_at + 1, Len(host0))
        filled  == [parsed EXCEPT !.host = host, !.port = port, !.path = path]
    IN  IF Len(host) = 0 THEN [ret |-> 0 - 1, req |-> filled]
        ELSE [ret |-> 0, req |-> filled]

\* snprintf(str, size, ...): at most size - 1 characters of the formatted
\* text are stored.
snprintf(size, text) == SubSeq(text, 1, Min(Len(text), size - 1))

\* "\r\nHost: "
HostHeader == <<13, 10, 72, 111, 115, 116, 58, 32>>
\* "\r\nConnection: close\r\n\r\n"
ConnectionClose ==
    <<13, 10, 67, 111, 110, 110, 101, 99, 116, 105, 111, 110, 58, 32, 99, 108,
      111, 115, 101, 13, 10, 13, 10>>

\* snprintf(new_request, sizeof(new_request),
\*          "GET %s %s\r\nHost: %s\r\nConnection: close\r\n\r\n",
\*          req->path, req->version, req->host)
new_request(req) ==
    snprintf(MAX_REQUEST_LEN,
             GET \o <<32>> \o req.path \o <<32>> \o req.version \o HostHeader
                 \o req.host \o ConnectionClose)

\* "HTTP/1.0" and "HTTP/1.1"
HTTP10 == <<72, 84, 84, 80, 47, 49, 46, 48>>
HTTP11 == <<72, 84, 84, 80, 47, 49, 46, 49>>
\* "http://"
HttpScheme == <<104, 116, 116, 112, 58, 47, 47>>
\* "\r\n\r\n"
EndOfHeaders == <<13, 10, 13, 10>>

\* The bytes of "GET http://<host>/ HTTP/1.0\r\n\r\n"
GetLine(host) ==
    GET \o <<32>> \o HttpScheme \o host \o Slash \o <<32>> \o HTTP10
        \o EndOfHeaders

\* ":8080"
Port8080 == <<58, 56, 48, 56, 48>>

\* The bytes of "GET http://<host>:8080/ HTTP/1.0\r\n\r\n"
GetLineOnPort(host) ==
    GET \o <<32>> \o HttpScheme \o host \o Port8080 \o Slash \o <<32>>
        \o HTTP10 \o EndOfHeaders

\* The bytes of "CONNECT <host>:443 HTTP/1.1\r\n\r\n"
ConnectLine(host) ==
    CONNECT \o <<32>> \o host \o <<58, 52, 52, 51>> \o <<32>> \o HTTP11
            \o EndOfHeaders

(***************************************************************************)
(* Request lines for the parser                                            *)
(***************************************************************************)
\* A path of LongPathLen characters: "/" followed by "p"s.
LongPath == [i \in 1 .. LongPathLen |-> IF i = 1 THEN 47 ELSE 112]

\* The bytes of a request made of the given pieces:
\* <prefix><method> <scheme><host><port><path><sep><version><tail>
RequestBytes(g) ==
    g.prefix \o g.method \o <<32>> \o g.scheme \o g.host \o g.port \o g.path
             \o g.sep \o g.version \o g.tail

\* GET lines: with and without "http://", hosts "a", "ax" and none, ports
\* none, ":80" and ":", paths none, "/", "/a" and a long one, one or two
\* spaces before the version, the version present or not, with and without a
\* client header, with and without a leading CRLF.
GetPieces ==
    [prefix  : {<<>>, <<13, 10>>},
     method  : {GET},
     scheme  : {HttpScheme, <<>>},
     host    : {<<97>>, <<97, 120>>, <<>>},
     port    : {<<>>, <<58, 56, 48>>, <<58>>},
     path    : {<<>>, Slash, <<47, 97>>, LongPath},
     sep     : {<<32>>, <<32, 32>>},
     version : {HTTP10, <<>>},
     tail    : {EndOfHeaders, HostHeader \o <<98>> \o EndOfHeaders}]

\* CONNECT lines: "a:443", "ax:443", "a", "a:", ":443", ":" and "a:b:443".
ConnectPieces ==
    [prefix  : {<<>>},
     method  : {CONNECT},
     scheme  : {<<>>},
     host    : {<<97>>, <<97, 120>>, <<97, 58, 98>>, <<>>},
     port    : {<<>>, <<58>>, <<58, 52, 52, 51>>},
     path    : {<<>>},
     sep     : {<<32>>, <<32, 32>>},
     version : {HTTP11, <<>>},
     tail    : {EndOfHeaders}]

\* Lines with another method: "POST" and "get".
OtherPieces ==
    [prefix  : {<<>>},
     method  : {<<80, 79, 83, 84>>, <<103, 101, 116>>},
     scheme  : {HttpScheme},
     host    : {<<97>>},
     port    : {<<>>},
     path    : {Slash},
     sep     : {<<32>>},
     version : {HTTP10},
     tail    : {EndOfHeaders}]

\* What clients send to the parser: the lines above, "GET" alone (three
\* bytes), and nothing at all (the client closed).
ParseInputs ==
    {RequestBytes(g) : g \in GetPieces \cup ConnectPieces \cup OtherPieces}
        \cup {GET, <<>>}

\* snprintf(cache_key, key_len, "%s%s", req->host, req->path)
cache_key(req) == req.host \o req.path

AllKeys == {cache_key(r) : r \in GetRequests}

(***************************************************************************)
(* LRU cache                                                               *)
(***************************************************************************)
\* The addresses malloc hands out for CacheNodes.  An entry holds at least
\* one byte, so no more than g_max_cache_size entries exist at a time.
Nodes == 1 .. g_max_cache_size

\* Memory that holds no CacheNode.
FreeNode == [key |-> NullStr, data |-> <<>>, data_size |-> 0,
             prev |-> NULL, next |-> NULL, h_next |-> NULL]

\* hash(str): djb2 on an unsigned long of 64 bits, which wraps for keys of
\* a dozen characters.  The value is kept as four 16-bit limbs, least
\* significant first.
\* hash = ((hash << 5) + hash) + c
hash_limbs(h, c) ==
    LET l1 == h[1] * 33 + c
        l2 == h[2] * 33 + (l1 \div 65536)
        l3 == h[3] * 33 + (l2 \div 65536)
        l4 == h[4] * 33 + (l3 \div 65536)
    IN  <<l1 % 65536, l2 % 65536, l3 % 65536, l4 % 65536>>

\* (the hash so far is evaluated once, then stepped)
hash_step(h, c) == CHOOSE r \in {hash_limbs(v, c) : v \in {h}} : TRUE

RECURSIVE hash_from(_, _, _)
hash_from(h, str, i) ==
    IF i > Len(str) THEN h ELSE hash_from(hash_step(h, str[i]), str, i + 1)

hash(str) == hash_from(<<5381, 0, 0, 0>>, str, 1)

\* hash(key) % cache->table_size
hash_mod_table_size(key) ==
    LET h == hash(key)
        r4 == h[4] % CACHE_HASHTABLE_SIZE
        r3 == (r4 * 65536 + h[3]) % CACHE_HASHTABLE_SIZE
        r2 == (r3 * 65536 + h[2]) % CACHE_HASHTABLE_SIZE
    IN  (r2 * 65536 + h[1]) % CACHE_HASHTABLE_SIZE

\* The same value for the keys of GetRequests, worked out once.
BucketOfKey == [k \in AllKeys |-> hash_mod_table_size(k)]

\* unsigned long h = hash(key) % cache->table_size;
Bucket(key) ==
    IF key \in AllKeys THEN BucketOfKey[key] ELSE hash_mod_table_size(key)

\* detach_node(c, node), on c = [heap, head, tail]
detach_node(c, n) ==
    LET node == c.heap[n]
        hp1 == IF node.prev # NULL
               THEN [c.heap EXCEPT ![node.prev].next = node.next]
               ELSE c.heap
        hd1 == IF node.prev # NULL THEN c.head ELSE node.next
        hp2 == IF node.next # NULL
               THEN [hp1 EXCEPT ![node.next].prev = node.prev]
               ELSE hp1
        tl1 == IF node.next # NULL THEN c.tail ELSE node.prev
    IN  [heap |-> hp2, head |-> hd1, tail |-> tl1]

\* attach_to_front(c, node)
attach_to_front(c, n) ==
    LET hp1 == [c.heap EXCEPT ![n].next = c.head, ![n].prev = NULL]
        hp2 == IF c.head # NULL THEN [hp1 EXCEPT ![c.head].prev = n] ELSE hp1
    IN  [heap |-> hp2, head |-> n, tail |-> IF c.tail = NULL THEN n ELSE c.tail]

\* detach_node(cache, node); attach_to_front(cache, node);
\* (faulty variant: a hit that leaves the list as it is)
move_to_front_skipped(c, n) == c
move_to_front(c, n) == attach_to_front(detach_node(c, n), n)

\* The chain walk of get_from_cache: the first node of the chain whose key
\* compares equal, or NULL.
\* (faulty variant: no node is found)
find_in_chain_none(hp, node, key) == NULL

\* (faulty variant: the last node of the chain whose key compares equal)
RECURSIVE find_in_chain_last(_, _, _)
find_in_chain_last(hp, node, key) ==
    IF node = NULL THEN NULL
    ELSE LET later == find_in_chain_last(hp, hp[node].h_next, key) IN
         IF later # NULL THEN later
         ELSE IF hp[node].key = key THEN node ELSE NULL

RECURSIVE find_in_chain(_, _, _)
find_in_chain(hp, node, key) ==
    IF node = NULL THEN NULL
    ELSE IF hp[node].key = key THEN node
    ELSE find_in_chain(hp, hp[node].h_next, key)

\* The chain walk of evict_lru: unlink lru_node from bucket h.
RECURSIVE unlink_from_chain(_, _, _, _, _, _)
unlink_from_chain(hp, tbl, h, curr, prev, lru_node) ==
    IF curr = NULL THEN [heap |-> hp, table |-> tbl]
    ELSE IF curr = lru_node
    THEN IF prev # NULL
         THEN [heap |-> [hp EXCEPT ![prev].h_next = hp[curr].h_next], table |-> tbl]
         ELSE [heap |-> hp, table |-> [tbl EXCEPT ![h] = hp[curr].h_next]]
    ELSE unlink_from_chain(hp, tbl, h, hp[curr].h_next, curr, lru_node)

\* CacheNode *lru_node = cache->tail;
\* (faulty variant: the head is taken)
lru_victim_is_head == c_head
lru_victim == c_tail

\* new_node->h_next = cache->table[h]; cache->table[h] = new_node;
\* as [heap, table], for the new node n in bucket h
\* (faulty variant: the old chain is not linked behind the new node)
chain_insert_no_link(hp, tbl, h, n) ==
    [heap |-> [hp EXCEPT ![n].h_next = NULL], table |-> [tbl EXCEPT ![h] = n]]
chain_insert(hp, tbl, h, n) ==
    [heap |-> [hp EXCEPT ![n].h_next = tbl[h]], table |-> [tbl EXCEPT ![h] = n]]

\* history value: no insertion for the key is resident
NoPut == [data |-> <<>>, node |-> NULL, req |-> NoRequest]

\* create_cache(g_max_cache_size, CACHE_HASHTABLE_SIZE); c_capacity is set
\* beside it, from the configuration
create_cache ==
    /\ heap = [n \in Nodes |-> FreeNode]
    /\ allocated = {}
    /\ c_table = [h \in 0 .. CACHE_HASHTABLE_SIZE - 1 |-> NULL]
    /\ c_head = NULL
    /\ c_tail = NULL
    /\ c_size = 0
    /\ c_lock = Unlocked
    /\ access_order = <<>>
    /\ insert_order = <<>>
    /\ evict_note = "none"
    /\ last_put = [k \in AllKeys |-> NoPut]

\* strcmp(node->key, key) and hash(lru_node->key) read through node->key:
\* TRUE when the chain walk of get_from_cache compares a node whose key is
\* NULL before it finds the key.
RECURSIVE strcmp_null_key(_, _, _)
strcmp_null_key(hp, node, key) ==
    IF node = NULL THEN FALSE
    ELSE IF hp[node].key = NullStr THEN TRUE
    ELSE IF hp[node].key = key THEN FALSE
    ELSE strcmp_null_key(hp, hp[node].h_next, key)

\* The process after a write or read through a null pointer: SIGSEGV ends
\* every thread.
Crashed == [x \in Workers |-> "crashed"]

\* get_from_cache(cache_key): the whole critical section; the log line
\* follows the unlock.
get_from_cache(w) ==
    /\ h_pc[w] = "get"
    /\ c_lock = Unlocked
    /\ LET node == find_in_chain(heap, c_table[Bucket(h_key[w])], h_key[w]) IN
       IF strcmp_null_key(heap, c_table[Bucket(h_key[w])], h_key[w])
       THEN /\ h_pc' = Crashed
            /\ UNCHANGED <<heap, c_head, c_tail, access_order, h_item>>
       ELSE IF node # NULL
       THEN LET c == move_to_front([heap |-> heap, head |-> c_head,
                                    tail |-> c_tail], node) IN
            /\ heap' = c.heap
            /\ c_head' = c.head
            /\ c_tail' = c.tail
            /\ access_order' = <<node>> \o Without(access_order, node)
            /\ h_item' = [h_item EXCEPT ![w] = node]
            /\ h_pc' = [h_pc EXCEPT ![w] = "send_cached"]
       ELSE /\ h_item' = [h_item EXCEPT ![w] = NULL]
            /\ h_pc' = [h_pc EXCEPT ![w] = "fetch"]
            /\ UNCHANGED <<heap, c_head, c_tail, access_order>>
    /\ h_did' = [h_did EXCEPT ![w] = @ \cup {"lookup"}]
    /\ UNCHANGED <<allocated, c_table, c_size, c_lock, insert_order, evict_note,
                   last_put>>
    /\ UNCHANGED <<requests, malloc_fails, c_capacity, lvars, h_buffer, h_ret,
                   h_new_request, h_req, h_key, h_resp, h_buf, h_client, n_req>>
    /\ UNCHANGED <<qvars, tvars>>

\* put_in_cache(key, data, data_size) up to pthread_mutex_lock: the size
\* check, then taking cache->lock.
put_in_cache_enter(w) ==
    /\ h_pc[w] = "put"
    /\ IF Len(h_buf[w]) > g_max_element_size
       THEN \* "Item too large to cache"; back in handle_http_request:
            \* free, close(remote_socket), return
            /\ h_pc' = [h_pc EXCEPT ![w] = "done"]
            /\ UNCHANGED c_lock
       ELSE /\ c_lock = Unlocked
            /\ c_lock' = w
            /\ h_pc' = [h_pc EXCEPT ![w] = "put_locked"]
    /\ UNCHANGED <<heap, allocated, c_table, c_head, c_tail, c_size,
                   access_order, insert_order, evict_note, last_put>>
    /\ UNCHANGED <<requests, malloc_fails, c_capacity, lvars, h_buffer, h_ret,
                   h_new_request, h_req, h_key, h_item, h_resp, h_buf, h_client,
                   h_did, n_req>>
    /\ UNCHANGED <<qvars, tvars>>

\* One turn of while (cache->size + data_size > cache->capacity) evict_lru();
evict_lru(w) ==
    /\ h_pc[w] = "put_locked"
    /\ c_lock = w
    /\ c_size + Len(h_buf[w]) > c_capacity
    /\ LET lru_node == lru_victim IN
       IF lru_node = NULL
       THEN /\ UNCHANGED <<heap, allocated, c_table, c_head, c_tail, c_size,
                           access_order, insert_order, evict_note, last_put>>
            /\ UNCHANGED hvars
       ELSE IF heap[lru_node].key = NullStr
       THEN \* hash(lru_node->key) reads through the null key
            /\ UNCHANGED <<heap, allocated, c_table, c_head, c_tail, c_size,
                           access_order, insert_order, evict_note, last_put>>
            /\ h_pc' = Crashed
            /\ UNCHANGED <<requests, malloc_fails, c_capacity, lvars, h_buffer, h_ret,
                           h_new_request, h_req, h_key, h_item,
                           h_resp, h_buf, h_client, h_did, n_req>>
       ELSE LET c  == detach_node([heap |-> heap, head |-> c_head,
                                   tail |-> c_tail], lru_node)
                h  == Bucket(heap[lru_node].key)
                u  == unlink_from_chain(c.heap, c_table, h, c_table[h], NULL,
                                        lru_node)
                k  == heap[lru_node].key
            IN  /\ c_head' = c.head
                /\ c_tail' = c.tail
                /\ c_table' = u.table
                /\ c_size' = c_size - heap[lru_node].data_size
                \* free(lru_node->key); free(lru_node->data); free(lru_node);
                /\ heap' = [u.heap EXCEPT ![lru_node] = FreeNode]
                /\ allocated' = allocated \ {lru_node}
                /\ access_order' = Without(access_order, lru_node)
                /\ insert_order' = Without(insert_order, lru_node)
                /\ evict_note' = IF lru_node = insert_order[Len(insert_order)]
                                 THEN "oldest" ELSE "not_oldest"
                /\ last_put' = IF last_put[k].node = lru_node
                               THEN [last_put EXCEPT ![k] = NoPut]
                               ELSE last_put
                /\ UNCHANGED hvars
    /\ UNCHANGED c_lock
    /\ UNCHANGED <<qvars, tvars>>

\* put_in_cache after the eviction loop: allocate the node, link it at the
\* front of the list and of its bucket, and call log_message("Stored new
\* item ...") with cache->lock still held.
put_in_cache_insert(w) ==
    /\ h_pc[w] = "put_locked"
    /\ c_lock = w
    /\ ~(c_size + Len(h_buf[w]) > c_capacity)
    /\ Nodes \ allocated # {}
    /\ \E failed \in (IF malloc_fails THEN {"none", "node", "key", "data"}
                                     ELSE {"none"}) :
          IF failed \in {"node", "data"}
          THEN \* new_node->key = ... with new_node NULL, or
               \* memcpy(new_node->data, ...) with new_node->data NULL: the
               \* results of malloc are not tested
               /\ h_pc' = Crashed
               /\ UNCHANGED <<heap, allocated, c_table, c_head, c_tail, c_size,
                              access_order, insert_order, last_put>>
          ELSE LET new_node == CHOOSE n \in Nodes \ allocated :
                                   \A m \in Nodes \ allocated : n <= m
                   key == h_key[w]
                   \* new_node->key = strdup(key), not tested either
                   hp0 == [heap EXCEPT
                             ![new_node].key = IF failed = "key" THEN NullStr
                                               ELSE key,
                             ![new_node].data = h_buf[w],
                             ![new_node].data_size = Len(h_buf[w])]
                   c   == attach_to_front([heap |-> hp0, head |-> c_head,
                                           tail |-> c_tail], new_node)
                   u   == chain_insert(c.heap, c_table, Bucket(key), new_node)
               IN  /\ heap' = u.heap
                   /\ c_table' = u.table
                   /\ c_head' = c.head
                   /\ c_tail' = c.tail
                   /\ c_size' = c_size + Len(h_buf[w])
                   /\ allocated' = allocated \cup {new_node}
                   /\ access_order' = <<new_node>> \o access_order
                   /\ insert_order' = <<new_node>> \o insert_order
                   /\ last_put' = IF failed = "key" THEN last_put
                                  ELSE [k \in DOMAIN last_put \cup {key} |->
                                          IF k = key
                                          THEN [data |-> h_buf[w],
                                                node |-> new_node,
                                                req |-> h_req[w]]
                                          ELSE last_put[k]]
                   /\ h_pc' = [h_pc EXCEPT ![w] = "put_log"]
    /\ UNCHANGED <<c_lock, evict_note>>
    /\ UNCHANGED <<requests, malloc_fails, c_capacity, lvars, h_buffer, h_ret,
                   h_new_request, h_req, h_key, h_item, h_resp, h_buf,
                   h_client, h_did, n_req>>
    /\ UNCHANGED <<qvars, tvars>>

\* log_message returns; pthread_mutex_unlock(&cache->lock).  Back in
\* handle_http_request the worker frees its buffers and closes the origin.
put_in_cache_unlock(w) ==
    /\ h_pc[w] = "put_log"
    /\ c_lock = w
    /\ c_lock' = Unlocked
    /\ h_pc' = [h_pc EXCEPT ![w] = "done"]
    /\ UNCHANGED <<heap, allocated, c_table, c_head, c_tail, c_size,
                   access_order, insert_order, evict_note, last_put>>
    /\ UNCHANGED <<requests, malloc_fails, c_capacity, lvars, h_buffer, h_ret,
                   h_new_request, h_req, h_key, h_item, h_resp, h_buf, h_client,
                   h_did, n_req>>
    /\ UNCHANGED <<qvars, tvars>>

(***************************************************************************)
(* handle_request and the HTTP fetch path                                  *)
(***************************************************************************)
\* handle_request(client_socket) from recv to the dispatch, with the start
\* of handle_http_request (the cache key).  recv returns what the client
\* sent, at most MAX_REQUEST_LEN - 1 bytes of it; nothing received (the
\* client closed) and a failed parse end the request with nothing sent.
handle_request(w) ==
    /\ h_pc[w] = "idle"
    /\ n_req < MaxRequests
    /\ n_req' = n_req + 1
    /\ \E sent \in requests :
       \E buffer \in {SubSeq(sent, 1, Min(Len(sent), MAX_REQUEST_LEN - 1))} :
       \E parsed \in {IF Len(buffer) <= 0 THEN [ret |-> 0, req |-> NoRequest]
                      ELSE ParsedRequest_parse(buffer)} :
          LET bytes_read == Len(buffer)
              r == parsed.req
          IN
          /\ h_buffer' = [h_buffer EXCEPT ![w] = buffer]
          /\ h_ret' = [h_ret EXCEPT ![w] = parsed.ret]
          /\ h_req' = [h_req EXCEPT ![w] = r]
          /\ h_new_request' = [h_new_request EXCEPT ![w] = <<>>]
          /\ h_item' = [h_item EXCEPT ![w] = NULL]
          /\ h_resp' = [h_resp EXCEPT ![w] = <<>>]
          /\ h_buf' = [h_buf EXCEPT ![w] = <<>>]
          /\ h_did' = [h_did EXCEPT ![w] = {}]
          /\ IF bytes_read <= 0 \/ parsed.ret < 0
             THEN /\ h_client' = [h_client EXCEPT ![w] = <<>>]
                  /\ h_key' = [h_key EXCEPT ![w] = <<>>]
                  /\ h_pc' = [h_pc EXCEPT ![w] = "done"]
             ELSE IF is_blacklisted(r.host)
             THEN /\ h_client' = [h_client EXCEPT ![w] = Forbidden]
                  /\ h_key' = [h_key EXCEPT ![w] = <<>>]
                  /\ h_pc' = [h_pc EXCEPT ![w] = "done"]
             ELSE IF r.method # NullStr /\ r.method = CONNECT
             THEN /\ h_client' = [h_client EXCEPT ![w] = <<>>]
                  /\ h_key' = [h_key EXCEPT ![w] = <<>>]
                  /\ h_pc' = [h_pc EXCEPT ![w] = "connect"]
             ELSE IF r.host = NullStr \/ r.path = NullStr
             THEN /\ h_client' = [h_client EXCEPT ![w] = <<>>]
                  /\ h_key' = [h_key EXCEPT ![w] = <<>>]
                  /\ h_pc' = [h_pc EXCEPT ![w] = "done"]
             ELSE /\ h_client' = [h_client EXCEPT ![w] = <<>>]
                  /\ h_key' = [h_key EXCEPT ![w] = cache_key(r)]
                  /\ h_pc' = [h_pc EXCEPT ![w] = "get"]
    /\ UNCHANGED <<requests, malloc_fails, c_capacity, lvars>>
    /\ UNCHANGED cvars
    /\ UNCHANGED <<qvars, tvars>>

\* send(client_socket, cached_item->data, cached_item->data_size, 0): the
\* node is read after get_from_cache released the lock; reading a node that
\* was freed since yields whatever the memory holds.
send_cached(w) ==
    /\ h_pc[w] = "send_cached"
    /\ IF h_item[w] \in allocated
       THEN h_client' = [h_client EXCEPT ![w] = heap[h_item[w]].data]
       ELSE \E bytes \in (Responses \cup {Garbage}) :
                h_client' = [h_client EXCEPT ![w] = bytes]
    /\ h_pc' = [h_pc EXCEPT ![w] = "done"]
    /\ UNCHANGED <<requests, malloc_fails, c_capacity, lvars, h_buffer, h_ret,
                   h_new_request, h_req, h_key, h_item, h_resp, h_buf, h_did, n_req>>
    /\ UNCHANGED cvars
    /\ UNCHANGED <<qvars, tvars>>

\* The receive loop: recv(remote_socket, response_buffer + total,
\* g_max_element_size - total, 0) until it returns 0, which it does at the
\* origin's EOF and also when the room left in the buffer is 0.  Each recv
\* here returns all it can; total_response_size is the result.
RECURSIVE recv_loop_total(_, _)
recv_loop_total(total, resp) ==
    LET room == g_max_element_size - total
        response_bytes == Min(room, Len(resp) - total)
    IN  IF response_bytes > 0
        THEN recv_loop_total(total + response_bytes, resp)
        ELSE total

\* handle_http_request after a miss, up to the call of put_in_cache:
\* gethostbyname, socket, connect, the send of the rewritten request, and
\* the receive loop with every chunk forwarded to the client.  None of it
\* touches shared state.  resp is what the origin sends before it closes.
fetch_origin(w) ==
    /\ h_pc[w] = "fetch"
    /\ \E outcome \in {"dns_failed", "connect_failed", "connected"} :
          IF outcome = "dns_failed"
          THEN /\ h_did' = [h_did EXCEPT ![w] = @ \cup {"resolve"}]
               /\ h_pc' = [h_pc EXCEPT ![w] = "done"]
               /\ UNCHANGED <<h_new_request, h_resp, h_buf, h_client>>
          ELSE IF outcome = "connect_failed"
          THEN /\ h_did' = [h_did EXCEPT ![w] = @ \cup {"resolve", "connect"}]
               /\ h_pc' = [h_pc EXCEPT ![w] = "done"]
               /\ UNCHANGED <<h_new_request, h_resp, h_buf, h_client>>
          ELSE \E resp \in Responses :
                  LET total_response_size == recv_loop_total(0, resp)
                      received == SubSeq(resp, 1, total_response_size)
                  IN  /\ h_did' = [h_did EXCEPT ![w] =
                                      @ \cup {"resolve", "connect", "forward"}]
                      \* send(remote_socket, new_request, strlen(new_request), 0)
                      /\ h_new_request' = [h_new_request EXCEPT ![w] =
                                              new_request(h_req[w])]
                      /\ h_resp' = [h_resp EXCEPT ![w] = resp]
                      /\ h_buf' = [h_buf EXCEPT ![w] = received]
                      /\ h_client' = [h_client EXCEPT ![w] = received]
                      \* if (total_response_size > 0) put_in_cache(...)
                      /\ h_pc' = [h_pc EXCEPT ![w] =
                                     IF total_response_size > 0 THEN "put"
                                     ELSE "done"]
    /\ UNCHANGED <<requests, malloc_fails, c_capacity, lvars, h_buffer, h_ret, h_req,
                   h_key, h_item, n_req>>
    /\ UNCHANGED cvars
    /\ UNCHANGED <<qvars, tvars>>

\* handle_request returns (ParsedRequest_destroy(req); free(buffer)) and the
\* worker closes the client socket; the locals of the request are gone.
finish_request(w) ==
    /\ h_pc[w] = "done"
    /\ h_pc' = [h_pc EXCEPT ![w] = "idle"]
    /\ h_buffer' = [h_buffer EXCEPT ![w] = <<>>]
    /\ h_ret' = [h_ret EXCEPT ![w] = 0]
    /\ h_req' = [h_req EXCEPT ![w] = NoRequest]
    /\ h_new_request' = [h_new_request EXCEPT ![w] = <<>>]
    /\ h_key' = [h_key EXCEPT ![w] = <<>>]
    /\ h_item' = [h_item EXCEPT ![w] = NULL]
    /\ h_resp' = [h_resp EXCEPT ![w] = <<>>]
    /\ h_buf' = [h_buf EXCEPT ![w] = <<>>]
    /\ h_client' = [h_client EXCEPT ![w] = <<>>]
    /\ h_did' = [h_did EXCEPT ![w] = {}]
    /\ t_remote' = [t_remote EXCEPT ![w] = "none"]
    /\ t_activity' = [t_activity EXCEPT ![w] = 0]
    /\ t_bytes' = [t_bytes EXCEPT ![w] = 0]
    /\ t_sent' = [t_sent EXCEPT ![w] = 0]
    /\ t_ready' = [t_ready EXCEPT ![w] = {}]
    /\ t_c_read' = [t_c_read EXCEPT ![w] = <<>>]
    /\ t_o_sent' = [t_o_sent EXCEPT ![w] = <<>>]
    /\ t_o_read' = [t_o_read EXCEPT ![w] = <<>>]
    /\ t_c_sent' = [t_c_sent EXCEPT ![w] = <<>>]
    /\ UNCHANGED <<requests, malloc_fails, c_capacity, lvars, n_req>>
    /\ UNCHANGED <<qvars, cvars>>

InitHandlers ==
    /\ h_pc = [w \in Workers |-> "idle"]
    /\ h_buffer = [w \in Workers |-> <<>>]
    /\ h_ret = [w \in Workers |-> 0]
    /\ h_req = [w \in Workers |-> NoRequest]
    /\ h_new_request = [w \in Workers |-> <<>>]
    /\ h_key = [w \in Workers |-> <<>>]
    /\ h_item = [w \in Workers |-> NULL]
    /\ h_resp = [w \in Workers |-> <<>>]
    /\ h_buf = [w \in Workers |-> <<>>]
    /\ h_client = [w \in Workers |-> <<>>]
    /\ h_did = [w \in Workers |-> {}]
    /\ n_req = 0

(***************************************************************************)
(* handle_connect_request: the tunnel                                      *)
(***************************************************************************)
\* The i-th byte a side of the tunnel sends has the value i, so that a
\* byte that is lost or repeated shows.
StreamBytes(from, n) == [i \in 1 .. n |-> from + i]

InitTunnel ==
    /\ t_remote = [w \in Workers |-> "none"]
    /\ t_activity = [w \in Workers |-> 0]
    /\ t_bytes = [w \in Workers |-> 0]
    /\ t_sent = [w \in Workers |-> 0]
    /\ t_ready = [w \in Workers |-> {}]
    /\ t_c_read = [w \in Workers |-> <<>>]
    /\ t_o_sent = [w \in Workers |-> <<>>]
    /\ t_o_read = [w \in Workers |-> <<>>]
    /\ t_c_sent = [w \in Workers |-> <<>>]

\* close(remote_socket) on a descriptor in state st
\* (faulty variant: the descriptor is left open)
close_forgotten(st) == st
close(st) == IF st = "open" THEN "closed" ELSE "bad_close"

\* handle_connect_request up to the relay loop: gethostbyname, socket,
\* connect, and the 200 sent to the client.
connect_tunnel(w) ==
    /\ h_pc[w] = "connect"
    /\ \E outcome \in (IF h_req[w].host = NullStr
                        THEN \* log_message("%s", NULL); gethostbyname(NULL)
                             {"null_host", "dns_failed"}
                        ELSE {"dns_failed", "connect_failed", "send_failed",
                              "established"}) :
          IF outcome = "null_host"
          THEN /\ h_pc' = Crashed
               /\ UNCHANGED <<h_did, h_client, t_remote>>
          ELSE IF outcome = "dns_failed"
          THEN \* return, before socket()
               /\ h_did' = [h_did EXCEPT ![w] = @ \cup {"resolve"}]
               /\ h_pc' = [h_pc EXCEPT ![w] = "done"]
               /\ UNCHANGED <<h_client, t_remote>>
          ELSE IF outcome = "connect_failed"
          THEN \* close(remote_socket); return
               /\ h_did' = [h_did EXCEPT ![w] = @ \cup {"resolve", "connect"}]
               /\ h_pc' = [h_pc EXCEPT ![w] = "done"]
               /\ t_remote' = [t_remote EXCEPT ![w] = close("open")]
               /\ UNCHANGED h_client
          ELSE IF outcome = "send_failed"
          THEN \* close(remote_socket); return
               /\ h_did' = [h_did EXCEPT ![w] = @ \cup {"resolve", "connect"}]
               /\ h_pc' = [h_pc EXCEPT ![w] = "done"]
               /\ t_remote' = [t_remote EXCEPT ![w] = close("open")]
               /\ UNCHANGED h_client
          ELSE /\ h_did' = [h_did EXCEPT ![w] = @ \cup {"resolve", "connect"}]
               /\ h_client' = [h_client EXCEPT ![w] = Established]
               /\ h_pc' = [h_pc EXCEPT ![w] = "tunnel"]
               /\ t_remote' = [t_remote EXCEPT ![w] = "open"]
    /\ UNCHANGED <<t_activity, t_bytes, t_sent, t_ready, t_c_read, t_o_sent,
                   t_o_read, t_c_sent>>
    /\ UNCHANGED <<requests, malloc_fails, c_capacity, lvars, h_buffer, h_ret,
                   h_new_request, h_req, h_key, h_item, h_resp, h_buf,
                   n_req>>
    /\ UNCHANGED <<qvars, cvars>>

\* while (server_running); when the flag is cleared: log "Tunnel closed",
\* close(remote_socket), return
tunnel_loop_test(w) ==
    /\ h_pc[w] = "tunnel"
    /\ IF server_running = 1
       THEN /\ h_pc' = [h_pc EXCEPT ![w] = "select"]
            /\ UNCHANGED t_remote
       ELSE /\ h_pc' = [h_pc EXCEPT ![w] = "done"]
            /\ t_remote' = [t_remote EXCEPT ![w] = close(@)]
    /\ UNCHANGED <<requests, malloc_fails, c_capacity, lvars, h_buffer, h_ret,
                   h_new_request, h_req, h_key, h_item, h_resp, h_buf,
                   h_client, h_did, n_req>>
    /\ UNCHANGED <<t_activity, t_bytes, t_sent, t_ready, t_c_read, t_o_sent,
                   t_o_read, t_c_sent>>
    /\ UNCHANGED <<qvars, cvars>>

\* activity = select(max_fd + 1, &read_fds, NULL, NULL, &tv): -1 is an error
\* and ends the loop (then "Tunnel closed", close(remote_socket)), 0 is the
\* 60 s timeout and continues it, otherwise read_fds names the readable
\* sockets.
tunnel_select(w) ==
    /\ h_pc[w] = "select"
    /\ \E fds \in SUBSET {"client", "origin"} : \E failed \in BOOLEAN :
          LET activity == IF failed THEN 0 - 1 ELSE Cardinality(fds) IN
          /\ failed => fds = {}
          /\ t_activity' = [t_activity EXCEPT ![w] = activity]
          /\ t_ready' = [t_ready EXCEPT ![w] = fds]
          /\ IF activity < 0
             THEN /\ h_pc' = [h_pc EXCEPT ![w] = "done"]
                  /\ t_remote' = [t_remote EXCEPT ![w] = close(@)]
             ELSE IF activity = 0
             THEN /\ h_pc' = [h_pc EXCEPT ![w] = "tunnel"]
                  /\ UNCHANGED t_remote
             ELSE /\ h_pc' = [h_pc EXCEPT ![w] = "relay_client"]
                  /\ UNCHANGED t_remote
    /\ UNCHANGED <<requests, malloc_fails, c_capacity, lvars, h_buffer, h_ret,
                   h_new_request, h_req, h_key, h_item, h_resp, h_buf,
                   h_client, h_did, n_req>>
    /\ UNCHANGED <<t_bytes, t_sent, t_c_read, t_o_sent, t_o_read, t_c_sent>>
    /\ UNCHANGED <<qvars, cvars>>

\* How many more bytes the two sides of the tunnel have to send.
TunnelBytesLeft(w) == MaxTunnelBytes - Len(t_c_read[w]) - Len(t_o_read[w])

\* if (send(remote_socket, buffer, bytes, 0) <= 0) break;
\* TRUE when the loop goes on after send returned `sent` for `bytes` bytes
\* (the test a tunnel that stops on a short write would make)
send_ok_only_if_complete(sent, bytes) == sent = bytes
send_ok(sent, bytes) == ~(sent <= 0)

\* The bytes a send that returned `sent` has put on the wire.
Accepted(buffer, sent) == IF sent > 0 THEN SubSeq(buffer, 1, sent) ELSE <<>>

\* if (FD_ISSET(client_socket, &read_fds)) { recv from the client; send to
\* the origin }.  recv returns -1 (error), 0 (EOF) or up to sizeof(buffer)
\* bytes; send returns -1 or how many of the bytes the socket accepted.
relay_client(w) ==
    /\ h_pc[w] = "relay_client"
    /\ IF "client" \in t_ready[w]
       THEN \E bytes \in (0 - 1) .. Min(MAX_REQUEST_LEN, TunnelBytesLeft(w)) :
              /\ t_bytes' = [t_bytes EXCEPT ![w] = bytes]
              /\ IF bytes <= 0
                 THEN /\ h_pc' = [h_pc EXCEPT ![w] = "done"]
                      /\ t_remote' = [t_remote EXCEPT ![w] = close(@)]
                      /\ UNCHANGED <<t_sent, t_c_read, t_o_sent>>
                 ELSE \E sent \in (0 - 1) .. bytes :
                         LET buffer == StreamBytes(Len(t_c_read[w]), bytes) IN
                         /\ t_sent' = [t_sent EXCEPT ![w] = sent]
                         /\ t_c_read' = [t_c_read EXCEPT ![w] = @ \o buffer]
                         /\ t_o_sent' = [t_o_sent EXCEPT ![w] =
                                            @ \o Accepted(buffer, sent)]
                         /\ IF send_ok(sent, bytes)
                            THEN /\ h_pc' = [h_pc EXCEPT ![w] = "relay_origin"]
                                 /\ UNCHANGED t_remote
                            ELSE /\ h_pc' = [h_pc EXCEPT ![w] = "done"]
                                 /\ t_remote' = [t_remote EXCEPT ![w] = close(@)]
       ELSE /\ h_pc' = [h_pc EXCEPT ![w] = "relay_origin"]
            /\ UNCHANGED <<t_remote, t_bytes, t_sent, t_c_read, t_o_sent>>
    /\ UNCHANGED <<requests, malloc_fails, c_capacity, lvars, h_buffer, h_ret,
                   h_new_request, h_req, h_key, h_item, h_resp, h_buf,
                   h_client, h_did, n_req>>
    /\ UNCHANGED <<t_activity, t_ready, t_o_read, t_c_sent>>
    /\ UNCHANGED <<qvars, cvars>>

\* if (FD_ISSET(remote_socket, &read_fds)) { recv from the origin; send to
\* the client }
relay_origin(w) ==
    /\ h_pc[w] = "relay_origin"
    /\ IF "origin" \in t_ready[w]
       THEN \E bytes \in (0 - 1) .. Min(MAX_REQUEST_LEN, TunnelBytesLeft(w)) :
              IF bytes <= 0
              THEN /\ h_pc' = [h_pc EXCEPT ![w] = "done"]
                   /\ t_remote' = [t_remote EXCEPT ![w] = close(@)]
                   /\ t_bytes' = [t_bytes EXCEPT ![w] = bytes]
                   /\ UNCHANGED <<t_sent, t_ready, t_o_read, t_c_sent>>
              ELSE \E sent \in (0 - 1) .. bytes :
                      LET buffer == StreamBytes(Len(t_o_read[w]), bytes) IN
                      /\ t_o_read' = [t_o_read EXCEPT ![w] = @ \o buffer]
                      /\ t_c_sent' = [t_c_sent EXCEPT ![w] =
                                         @ \o Accepted(buffer, sent)]
                      /\ IF send_ok(sent, bytes)
                         THEN \* end of the loop body: buffer and bytes go
                              \* out of scope, FD_ZERO(&read_fds) follows
                              /\ h_pc' = [h_pc EXCEPT ![w] = "tunnel"]
                              /\ t_bytes' = [t_bytes EXCEPT ![w] = 0]
                              /\ t_sent' = [t_sent EXCEPT ![w] = 0]
                              /\ t_ready' = [t_ready EXCEPT ![w] = {}]
                              /\ UNCHANGED t_remote
                         ELSE /\ h_pc' = [h_pc EXCEPT ![w] = "done"]
                              /\ t_bytes' = [t_bytes EXCEPT ![w] = bytes]
                              /\ t_sent' = [t_sent EXCEPT ![w] = sent]
                              /\ t_remote' = [t_remote EXCEPT ![w] = close(@)]
                              /\ UNCHANGED t_ready
       ELSE /\ h_pc' = [h_pc EXCEPT ![w] = "tunnel"]
            /\ t_bytes' = [t_bytes EXCEPT ![w] = 0]
            /\ t_sent' = [t_sent EXCEPT ![w] = 0]
            /\ t_ready' = [t_ready EXCEPT ![w] = {}]
            /\ UNCHANGED <<t_remote, t_o_read, t_c_sent>>
    /\ UNCHANGED <<requests, malloc_fails, c_capacity, lvars, h_buffer, h_ret,
                   h_new_request, h_req, h_key, h_item, h_resp, h_buf, h_client,
                   h_did, n_req>>
    /\ UNCHANGED <<t_activity, t_c_read, t_o_sent>>
    /\ UNCHANGED <<qvars, cvars>>

(***************************************************************************)
(* The three mutexes, thread by thread                                     *)
(***************************************************************************)
\* task_queue.lock, cache->lock and log_mutex
QueueLock == "task_queue.lock"
CacheLock == "cache->lock"
LogMutex == "log_mutex"
Mutexes == {QueueLock, CacheLock, LogMutex}
NoMutex == "none"

\* main() and the worker threads it creates
Threads == Workers \cup {Main}

\* Everything but the mutexes and the flag.
pvars == <<sockets, q_size, q_head, q_tail, q_lock, not_empty, not_full, a_pc,
           a_sock, a_join, w_pc, w_sock, accepted, enq_hist, deq_hist, closed,
           cvars, tvars, svars, requests, malloc_fails, c_capacity>>

\* main() before its first log_message; pthread_create comes later.
InitMutexes ==
    /\ m_owner = [m \in Mutexes |-> Unlocked]
    /\ l_pc = [t \in Threads |-> IF t = Main THEN "start" ELSE "not_created"]
    /\ l_ret = [t \in Threads |-> "none"]
    /\ l_size = 0
    /\ l_not_empty = {}
    /\ l_not_full = {}
    /\ l_accepted = 0
    /\ l_items = <<>>
    /\ l_data_size = [w \in Workers |-> 0]

\* The mutexes a thread holds.
Held(t) == {m \in Mutexes : m_owner[m] = t}

\* The mutex of the pthread_mutex_lock call a thread at pc is in (on entry
\* to a function, or inside pthread_cond_wait after the wake-up), if any.
WantedMutex(pc) ==
    CASE pc \in {"enqueue", "enq_woken", "dequeue", "deq_woken"} -> QueueLock
      [] pc \in {"get", "put_lock"} -> CacheLock
      [] pc = "log_message" -> LogMutex
      [] OTHER -> NoMutex

\* Where a thread is once that call has returned.
Locked(pc) ==
    CASE pc \in {"enqueue", "enq_woken"} -> "enq_locked"
      [] pc \in {"dequeue", "deq_woken"} -> "deq_locked"
      [] pc = "get" -> "get_locked"
      [] pc = "put_lock" -> "put_loop"
      [] pc = "log_message" -> "log_locked"

\* pthread_mutex_lock(m) returns: the mutex was free and is now the caller's.
pthread_mutex_lock(t) ==
    /\ WantedMutex(l_pc[t]) # NoMutex
    /\ m_owner[WantedMutex(l_pc[t])] = Unlocked
    /\ m_owner' = [m_owner EXCEPT ![WantedMutex(l_pc[t])] = t]
    /\ l_pc' = [l_pc EXCEPT ![t] = Locked(@)]
    /\ UNCHANGED <<l_ret, l_size, l_not_empty, l_not_full, l_accepted, l_items,
                   l_data_size>>
    /\ UNCHANGED <<server_running, pvars>>

\* A call log_message(...) after which the caller continues at ret.
call_log_message(t, ret) ==
    /\ l_pc' = [l_pc EXCEPT ![t] = "log_message"]
    /\ l_ret' = [l_ret EXCEPT ![t] = ret]

\* log_message between its lock and its unlock: time, strftime, fprintf,
\* vfprintf, fflush; then pthread_mutex_unlock(&log_mutex) and return.
log_message(t) ==
    /\ l_pc[t] = "log_locked"
    /\ m_owner' = [m_owner EXCEPT ![LogMutex] = Unlocked]
    /\ l_pc' = [l_pc EXCEPT ![t] = l_ret[t]]
    /\ l_ret' = [l_ret EXCEPT ![t] = "none"]
    /\ UNCHANGED <<l_size, l_not_empty, l_not_full, l_accepted, l_items,
                   l_data_size>>
    /\ UNCHANGED <<server_running, pvars>>

\* main: log "Server starting ...", then create_cache, init_task_queue and
\* pthread_create for every worker; socket, bind and listen succeed.
mx_main_start ==
    /\ \/ /\ l_pc[Main] = "start"
          /\ call_log_message(Main, "create")
       \/ /\ l_pc[Main] = "create"
          /\ l_pc' = [t \in Threads |-> IF t = Main THEN "loop" ELSE "dequeue"]
          /\ UNCHANGED l_ret
    /\ UNCHANGED <<m_owner, l_size, l_not_empty, l_not_full, l_accepted,
                   l_items, l_data_size>>
    /\ UNCHANGED <<server_running, pvars>>

\* while (server_running) { accept ... }: a client socket goes to
\* enqueue_task; -1 with EINTR after the flag was cleared breaks; any other
\* -1 is logged.  After the loop: log "Shutting down server...".
mx_main_loop ==
    /\ \/ /\ l_pc[Main] = "loop"
          /\ IF server_running = 1
             THEN l_pc' = [l_pc EXCEPT ![Main] = "accept"] /\ UNCHANGED l_ret
             ELSE call_log_message(Main, "broadcast")
          /\ UNCHANGED l_accepted
       \/ /\ l_pc[Main] = "accept"
          /\ \E r \in {"socket", "eintr", "error"} :
                CASE r = "socket" ->
                        /\ l_accepted < MaxLockConns
                        /\ l_accepted' = l_accepted + 1
                        /\ l_pc' = [l_pc EXCEPT ![Main] = "enqueue"]
                        /\ UNCHANGED l_ret
                  [] r = "eintr" ->
                        /\ server_running = 0
                        /\ call_log_message(Main, "broadcast")
                        /\ UNCHANGED l_accepted
                  [] r = "error" ->
                        /\ call_log_message(Main, "loop")
                        /\ UNCHANGED l_accepted
    /\ UNCHANGED <<m_owner, l_size, l_not_empty, l_not_full, l_items,
                   l_data_size>>
    /\ UNCHANGED <<server_running, pvars>>

\* enqueue_task with task_queue.lock held: the loop test, then either on to
\* pthread_cond_wait or the slot is written, not_empty signalled (one
\* waiter wakes, if any) and the mutex unlocked.
mx_enqueue_task ==
    /\ l_pc[Main] = "enq_locked"
    /\ IF l_size = MAX_CLIENTS
       THEN /\ l_pc' = [l_pc EXCEPT ![Main] = "enq_prewait"]
            /\ UNCHANGED <<m_owner, l_size, l_not_empty>>
       ELSE /\ l_size' = l_size + 1
            /\ m_owner' = [m_owner EXCEPT ![QueueLock] = Unlocked]
            /\ IF l_not_empty = {}
               THEN /\ l_pc' = [l_pc EXCEPT ![Main] = "loop"]
                    /\ UNCHANGED l_not_empty
               ELSE \E w \in l_not_empty :
                        /\ l_not_empty' = l_not_empty \ {w}
                        /\ l_pc' = [l_pc EXCEPT ![Main] = "loop",
                                                ![w] = "deq_woken"]
    /\ UNCHANGED <<l_ret, l_not_full, l_accepted, l_items, l_data_size>>
    /\ UNCHANGED <<server_running, pvars>>

\* pthread_cond_wait(&cond, &task_queue.lock): the mutex is released and
\* the thread blocks, atomically.
mx_cond_wait(t) ==
    /\ l_pc[t] \in {"enq_prewait", "deq_prewait"}
    /\ m_owner' = [m_owner EXCEPT ![QueueLock] = Unlocked]
    /\ IF t = Main
       THEN /\ l_not_full' = l_not_full \cup {t}
            /\ l_pc' = [l_pc EXCEPT ![t] = "enq_wait"]
            /\ UNCHANGED l_not_empty
       ELSE /\ l_not_empty' = l_not_empty \cup {t}
            /\ l_pc' = [l_pc EXCEPT ![t] = "deq_wait"]
            /\ UNCHANGED l_not_full
    /\ UNCHANGED <<l_ret, l_size, l_accepted, l_items, l_data_size>>
    /\ UNCHANGED <<server_running, pvars>>

\* POSIX lets pthread_cond_wait wake without a signal; the thread then
\* takes the mutex again like any woken waiter.
mx_spurious_wakeup(t) ==
    /\ l_pc[t] \in {"enq_wait", "deq_wait"}
    /\ l_pc' = [l_pc EXCEPT ![t] = IF t = Main THEN "enq_woken"
                                               ELSE "deq_woken"]
    /\ l_not_full' = l_not_full \ {t}
    /\ l_not_empty' = l_not_empty \ {t}
    /\ UNCHANGED <<m_owner, l_ret, l_size, l_accepted, l_items, l_data_size>>
    /\ UNCHANGED <<server_running, pvars>>

\* main after the loop: pthread_cond_broadcast(&not_empty) with no mutex
\* held, pthread_join of every worker, close(server_fd), log "Server shut
\* down cleanly.".
mx_main_shutdown ==
    /\ \/ /\ l_pc[Main] = "broadcast"
          /\ l_pc' = [t \in Threads |->
                         IF t = Main THEN "join"
                         ELSE IF t \in l_not_empty THEN "deq_woken"
                         ELSE l_pc[t]]
          /\ l_not_empty' = {}
          /\ UNCHANGED l_ret
       \/ /\ l_pc[Main] = "join"
          /\ \A w \in Workers : l_pc[w] = "exited"
          /\ call_log_message(Main, "done")
          /\ UNCHANGED l_not_empty
    /\ UNCHANGED <<m_owner, l_size, l_not_full, l_accepted, l_items,
                   l_data_size>>
    /\ UNCHANGED <<server_running, pvars>>

\* dequeue_task with task_queue.lock held: the loop test, then on to
\* pthread_cond_wait, or unlock and return -1 (the worker returns), or take
\* the head, signal not_full, unlock and return the socket.
mx_dequeue_task(w) ==
    /\ l_pc[w] = "deq_locked"
    /\ IF l_size = 0 /\ server_running = 1
       THEN /\ l_pc' = [l_pc EXCEPT ![w] = "deq_prewait"]
            /\ UNCHANGED <<m_owner, l_size, l_not_full>>
       ELSE IF server_running = 0 /\ l_size = 0
       THEN /\ m_owner' = [m_owner EXCEPT ![QueueLock] = Unlocked]
            /\ l_pc' = [l_pc EXCEPT ![w] = "exited"]
            /\ UNCHANGED <<l_size, l_not_full>>
       ELSE /\ l_size' = l_size - 1
            /\ m_owner' = [m_owner EXCEPT ![QueueLock] = Unlocked]
            /\ l_not_full' = l_not_full \ {Main}
            /\ l_pc' = [l_pc EXCEPT ![w] = "handle",
                                    ![Main] = IF Main \in l_not_full
                                              THEN "enq_woken" ELSE @]
    /\ UNCHANGED <<l_ret, l_not_empty, l_accepted, l_items, l_data_size>>
    /\ UNCHANGED <<server_running, pvars>>

\* handle_request up to the dispatch: nothing received; a failed parse or
\* a blacklisted host, which are logged; CONNECT, which
\* handle_connect_request logs first; or GET, which goes to get_from_cache
\* (an incomplete request is logged instead).
mx_handle_request(w) ==
    /\ l_pc[w] = "handle"
    /\ \E r \in {"nothing", "logged", "connect", "http"} :
          CASE r = "nothing" -> /\ l_pc' = [l_pc EXCEPT ![w] = "close"]
                                /\ UNCHANGED l_ret
            [] r = "logged" -> call_log_message(w, "close")
            [] r = "connect" -> call_log_message(w, "tunnel")
            [] r = "http" -> /\ l_pc' = [l_pc EXCEPT ![w] = "get"]
                             /\ UNCHANGED l_ret
    /\ UNCHANGED <<m_owner, l_size, l_not_empty, l_not_full, l_accepted,
                   l_items, l_data_size>>
    /\ UNCHANGED <<server_running, pvars>>

\* handle_connect_request after its first log line: a failure to resolve,
\* to connect or to send 200 is logged and ends it; else "Tunnel
\* established" is logged, the relay loop runs (a failed select is
\* logged) and "Tunnel closed" is logged.
mx_handle_connect_request(w) ==
    /\ \/ /\ l_pc[w] = "tunnel"
          /\ \E r \in {"failed", "established"} :
                call_log_message(w, IF r = "failed" THEN "close" ELSE "relay")
       \/ /\ l_pc[w] = "relay"
          /\ \E r \in {"select_failed", "ended"} :
                IF r = "select_failed"
                THEN call_log_message(w, "relay_end")
                ELSE l_pc' = [l_pc EXCEPT ![w] = "relay_end"] /\ UNCHANGED l_ret
       \/ /\ l_pc[w] = "relay_end"
          /\ call_log_message(w, "close")
    /\ UNCHANGED <<m_owner, l_size, l_not_empty, l_not_full, l_accepted,
                   l_items, l_data_size>>
    /\ UNCHANGED <<server_running, pvars>>

\* seq with its i-th element moved to the front
MoveToFront(seq, i) ==
    <<seq[i]>> \o SubSeq(seq, 1, i - 1) \o SubSeq(seq, i + 1, Len(seq))

\* get_from_cache with cache->lock held: the chain walk finds the i-th
\* node of the list (and moves it to the front) or none (i = 0); unlock;
\* then the HIT or MISS line is logged.  A hit is sent and the request is
\* over.
mx_get_from_cache(w) ==
    /\ l_pc[w] = "get_locked"
    /\ m_owner' = [m_owner EXCEPT ![CacheLock] = Unlocked]
    /\ \E i \in 0 .. Len(l_items) :
          IF i = 0
          THEN /\ call_log_message(w, "fetch")
               /\ UNCHANGED l_items
          ELSE /\ call_log_message(w, "close")
               /\ l_items' = MoveToFront(l_items, i)
    /\ UNCHANGED <<l_size, l_not_empty, l_not_full, l_accepted, l_data_size>>
    /\ UNCHANGED <<server_running, pvars>>

\* handle_http_request after a miss: a host that does not resolve or does
\* not accept the connection is logged; else "Forwarding ..." is logged and
\* the response is received, at most g_max_element_size bytes of it, and
\* put_in_cache is called when there is at least one byte.
mx_handle_http_request(w) ==
    /\ \/ /\ l_pc[w] = "fetch"
          /\ \E r \in {"failed", "connected"} :
                call_log_message(w, IF r = "failed" THEN "close" ELSE "recv")
          /\ UNCHANGED l_data_size
       \/ /\ l_pc[w] = "recv"
          /\ \E total_response_size \in 0 .. g_max_element_size :
                /\ l_pc' = [l_pc EXCEPT ![w] = IF total_response_size > 0
                                               THEN "put" ELSE "close"]
                /\ l_data_size' = [l_data_size EXCEPT
                                      ![w] = total_response_size]
          /\ UNCHANGED l_ret
    /\ UNCHANGED <<m_owner, l_size, l_not_empty, l_not_full, l_accepted,
                   l_items>>
    /\ UNCHANGED <<server_running, pvars>>

\* cache->size: the sum of the data_size of the nodes
RECURSIVE SumOfSizes(_)
SumOfSizes(items) ==
    IF items = <<>> THEN 0 ELSE Head(items) + SumOfSizes(Tail(items))

\* put_in_cache: the size check before the lock (an oversized item is
\* logged and dropped); with cache->lock held, one turn of the while loop
\* (evict_lru returns at once when cache->tail is NULL, else it unlinks the
\* tail and logs "Evicting item"); after the loop the node is linked and
\* "Stored new item" is logged; then the mutex is unlocked.
mx_put_in_cache(w) ==
    /\ \/ /\ l_pc[w] = "put"
          /\ IF l_data_size[w] > g_max_element_size
             THEN call_log_message(w, "close")
             ELSE l_pc' = [l_pc EXCEPT ![w] = "put_lock"] /\ UNCHANGED l_ret
          /\ UNCHANGED <<m_owner, l_items>>
       \/ /\ l_pc[w] = "put_loop"
          /\ IF SumOfSizes(l_items) + l_data_size[w] > c_capacity
             THEN IF l_items = <<>>
                  THEN UNCHANGED <<l_pc, l_ret, l_items>>
                  ELSE /\ l_items' = SubSeq(l_items, 1, Len(l_items) - 1)
                       /\ call_log_message(w, "put_loop")
             ELSE /\ l_items' = <<l_data_size[w]>> \o l_items
                  /\ call_log_message(w, "put_unlock")
          /\ UNCHANGED m_owner
       \/ /\ l_pc[w] = "put_unlock"
          /\ m_owner' = [m_owner EXCEPT ![CacheLock] = Unlocked]
          /\ l_pc' = [l_pc EXCEPT ![w] = "close"]
          /\ UNCHANGED <<l_ret, l_items>>
    /\ UNCHANGED <<l_size, l_not_empty, l_not_full, l_accepted, l_data_size>>
    /\ UNCHANGED <<server_running, pvars>>

\* worker_thread: close(client_socket) and back to dequeue_task
mx_worker_thread(w) ==
    /\ l_pc[w] = "close"
    /\ l_pc' = [l_pc EXCEPT ![w] = "dequeue"]
    /\ UNCHANGED <<m_owner, l_ret, l_size, l_not_empty, l_not_full, l_accepted,
                   l_items, l_data_size>>
    /\ UNCHANGED <<server_running, pvars>>

InitThreads ==
    /\ server_running = 1
    /\ init_task_queue
    /\ a_pc = "loop"
    /\ a_sock = 0
    /\ a_join = 0
    /\ w_pc = [w \in Workers |-> "dequeue"]
    /\ w_sock = [w \in Workers |-> 0]
    /\ accepted = 0
    /\ enq_hist = <<>>
    /\ deq_hist = <<>>
    /\ closed = <<>>

\* The acceptor, the queue and the workers; what a worker does with a
\* request is a single step here.
InitQueue ==
    /\ InitThreads
    /\ create_cache
    /\ InitHandlers
    /\ InitTunnel
    /\ requests = {}
    /\ malloc_fails = FALSE
    /\ c_capacity = g_max_cache_size
    /\ InitMutexes

NextQueue ==
    \/ signal_handler
    \/ MainLoopTest
    \/ AcceptConn
    \/ AcceptInterrupted
    \/ AcceptFailed
    \/ EnqueueTask
    \/ SpuriousWakeupMain
    \/ MainBroadcast
    \/ MainJoin
    \/ MainExit
    \/ \E w \in Workers : DequeueTask(w)
    \/ \E w \in Workers : CondWaitNotEmpty(w)
    \/ \E w \in Workers : SpuriousWakeupWorker(w)
    \/ \E w \in Workers : WorkerHandle(w)
    \/ \E w \in Workers : WorkerClose(w)

SpecQueue == InitQueue /\ [][NextQueue]_vars

\* Scheduling: every thread that can run eventually runs, and a blocked
\* accept() returns once the flag is cleared.  New connections, accept
\* errors, signals and spurious wake-ups are not guaranteed to happen.
FairSpecQueue ==
    /\ SpecQueue
    /\ WF_vars(MainLoopTest)
    /\ WF_vars(AcceptInterrupted)
    /\ WF_vars(EnqueueTask)
    /\ WF_vars(MainBroadcast)
    /\ WF_vars(MainJoin)
    /\ WF_vars(MainExit)
    /\ \A w \in Workers :
          /\ WF_vars(DequeueTask(w))
          /\ WF_vars(CondWaitNotEmpty(w))
          /\ WF_vars(WorkerHandle(w))
          /\ WF_vars(WorkerClose(w))

\* Two workers serving GET requests against the shared cache.
Racers == {1, 2}

InitCache ==
    /\ InitThreads
    /\ create_cache
    /\ InitHandlers
    /\ InitTunnel
    /\ requests = {GetLine(r.host) : r \in {g \in GetRequests : ~is_blacklisted(g.host)}}
    /\ malloc_fails = FALSE
    /\ c_capacity = g_max_cache_size
    /\ InitMutexes

NextCache ==
    \/ \E w \in Racers : handle_request(w)
    \/ \E w \in Racers : get_from_cache(w)
    \/ \E w \in Racers : send_cached(w)
    \/ \E w \in Racers : fetch_origin(w)
    \/ \E w \in Racers : put_in_cache_enter(w)
    \/ \E w \in Racers : evict_lru(w)
    \/ \E w \in Racers : put_in_cache_insert(w)
    \/ \E w \in Racers : put_in_cache_unlock(w)
    \/ \E w \in Racers : finish_request(w)

SpecCache == InitCache /\ [][NextCache]_vars

\* The same two workers in a process whose allocator can run out of memory.
InitOutOfMemory ==
    /\ InitThreads
    /\ create_cache
    /\ InitHandlers
    /\ InitTunnel
    /\ requests = {GetLine(r.host) : r \in {g \in GetRequests : ~is_blacklisted(g.host)}}
    /\ malloc_fails = TRUE
    /\ c_capacity = g_max_cache_size
    /\ InitMutexes

SpecOutOfMemory == InitOutOfMemory /\ [][NextCache]_vars

\* One worker serving GET and CONNECT requests one after the other, with
\* the shutdown signal arriving at any time.
Serving == {1}

InitServe ==
    /\ InitThreads
    /\ create_cache
    /\ InitHandlers
    /\ InitTunnel
    /\ requests = {GetLine(<<97>>), GetLine(<<98>>), GetLine(<<97, 120>>)}
                      \cup {ConnectLine(r.host) : r \in ConnectRequests}
    /\ malloc_fails = FALSE
    /\ c_capacity = g_max_cache_size
    /\ InitMutexes

NextServe ==
    \/ signal_handler
    \/ \E w \in Serving : handle_request(w)
    \/ \E w \in Serving : get_from_cache(w)
    \/ \E w \in Serving : send_cached(w)
    \/ \E w \in Serving : fetch_origin(w)
    \/ \E w \in Serving : put_in_cache_enter(w)
    \/ \E w \in Serving : evict_lru(w)
    \/ \E w \in Serving : put_in_cache_insert(w)
    \/ \E w \in Serving : put_in_cache_unlock(w)
    \/ \E w \in Serving : connect_tunnel(w)
    \/ \E w \in Serving : tunnel_loop_test(w)
    \/ \E w \in Serving : tunnel_select(w)
    \/ \E w \in Serving : relay_client(w)
    \/ \E w \in Serving : relay_origin(w)
    \/ \E w \in Serving : finish_request(w)

SpecServe == InitServe /\ [][NextServe]_vars

\* One request, any of ParseInputs, on a server whose earlier clients closed
\* without sending a byte (each of those takes a request and leaves
\* everything else as it was).
InitParse ==
    /\ InitThreads
    /\ create_cache
    /\ h_pc = [w \in Workers |-> "idle"]
    /\ h_buffer = [w \in Workers |-> <<>>]
    /\ h_ret = [w \in Workers |-> 0]
    /\ h_req = [w \in Workers |-> NoRequest]
    /\ h_new_request = [w \in Workers |-> <<>>]
    /\ h_key = [w \in Workers |-> <<>>]
    /\ h_item = [w \in Workers |-> NULL]
    /\ h_resp = [w \in Workers |-> <<>>]
    /\ h_buf = [w \in Workers |-> <<>>]
    /\ h_client = [w \in Workers |-> <<>>]
    /\ h_did = [w \in Workers |-> {}]
    /\ n_req = MaxRequests - 1
    /\ InitTunnel
    /\ \E sent \in ParseInputs : requests = {sent}
    /\ malloc_fails = FALSE
    /\ c_capacity = g_max_cache_size
    /\ InitMutexes

\* The steps of one request on an empty cache: there is nothing to hit and
\* nothing to evict.
NextParse ==
    \/ signal_handler
    \/ \E w \in Serving : handle_request(w)
    \/ \E w \in Serving : get_from_cache(w)
    \/ \E w \in Serving : fetch_origin(w)
    \/ \E w \in Serving : put_in_cache_enter(w)
    \/ \E w \in Serving : put_in_cache_insert(w)
    \/ \E w \in Serving : put_in_cache_unlock(w)
    \/ \E w \in Serving : connect_tunnel(w)
    \/ \E w \in Serving : tunnel_loop_test(w)
    \/ \E w \in Serving : tunnel_select(w)
    \/ \E w \in Serving : relay_client(w)
    \/ \E w \in Serving : relay_origin(w)
    \/ \E w \in Serving : finish_request(w)

SpecParse == InitParse /\ [][NextParse]_vars

\* load_configuration: cache_size_mb and element_size_mb are read
\* independently and nothing compares them, so the capacity can be any
\* value, also one below g_max_element_size.
Capacities == 0 .. g_max_cache_size

\* One worker serving GET requests against a cache of any configured
\* capacity.
InitConfigured ==
    /\ InitThreads
    /\ create_cache
    /\ InitHandlers
    /\ InitTunnel
    /\ requests = {GetLine(r.host) : r \in {g \in GetRequests : ~is_blacklisted(g.host)}}
    /\ malloc_fails = FALSE
    /\ c_capacity \in Capacities
    /\ InitMutexes

NextConfigured ==
    \/ \E w \in Serving : handle_request(w)
    \/ \E w \in Serving : get_from_cache(w)
    \/ \E w \in Serving : send_cached(w)
    \/ \E w \in Serving : fetch_origin(w)
    \/ \E w \in Serving : put_in_cache_enter(w)
    \/ \E w \in Serving : evict_lru(w)
    \/ \E w \in Serving : put_in_cache_insert(w)
    \/ \E w \in Serving : put_in_cache_unlock(w)
    \/ \E w \in Serving : finish_request(w)

SpecConfigured == InitConfigured /\ [][NextConfigured]_vars

\* Scheduling: the worker keeps running.
FairSpecConfigured ==
    /\ SpecConfigured
    /\ \A w \in Serving :
          /\ WF_vars(handle_request(w))
          /\ WF_vars(get_from_cache(w))
          /\ WF_vars(send_cached(w))
          /\ WF_vars(fetch_origin(w))
          /\ WF_vars(put_in_cache_enter(w))
          /\ WF_vars(evict_lru(w))
          /\ WF_vars(put_in_cache_insert(w))
          /\ WF_vars(put_in_cache_unlock(w))
          /\ WF_vars(finish_request(w))

\* main and the workers with every lock, unlock and wait of the three
\* mutexes as a step of its own, for a cache of any configured capacity.
InitMutexSteps ==
    /\ InitThreads
    /\ create_cache
    /\ InitHandlers
    /\ InitTunnel
    /\ requests = {}
    /\ malloc_fails = FALSE
    /\ c_capacity \in Capacities
    /\ InitMutexes

NextMutexSteps ==
    \/ signal_handler
    \/ mx_main_start
    \/ mx_main_loop
    \/ mx_enqueue_task
    \/ mx_main_shutdown
    \/ \E t \in Threads : pthread_mutex_lock(t)
    \/ \E t \in Threads : log_message(t)
    \/ \E t \in Threads : mx_cond_wait(t)
    \/ \E t \in Threads : mx_spurious_wakeup(t)
    \/ \E w \in Workers : mx_dequeue_task(w)
    \/ \E w \in Workers : mx_handle_request(w)
    \/ \E w \in Workers : mx_handle_connect_request(w)
    \/ \E w \in Workers : mx_get_from_cache(w)
    \/ \E w \in Workers : mx_handle_http_request(w)
    \/ \E w \in Workers : mx_put_in_cache(w)
    \/ \E w \in Workers : mx_worker_thread(w)

SpecMutexSteps == InitMutexSteps /\ [][NextMutexSteps]_vars

\* Scheduling: every thread that can run eventually runs, and a mutex that
\* is free again and again is eventually given to a thread that waits for
\* it.  Signals and spurious wake-ups are not guaranteed to happen.
FairSpecMutexSteps ==
    /\ SpecMutexSteps
    /\ WF_vars(mx_main_start)
    /\ WF_vars(mx_main_loop)
    /\ WF_vars(mx_enqueue_task)
    /\ WF_vars(mx_main_shutdown)
    /\ \A t \in Threads :
          /\ SF_vars(pthread_mutex_lock(t))
          /\ WF_vars(log_message(t))
          /\ WF_vars(mx_cond_wait(t))
    /\ \A w \in Workers :
          /\ WF_vars(mx_dequeue_task(w))
          /\ WF_vars(mx_handle_request(w))
          /\ WF_vars(mx_handle_connect_request(w))
          /\ WF_vars(mx_get_from_cache(w))
          /\ WF_vars(mx_handle_http_request(w))
          /\ WF_vars(mx_put_in_cache(w))
          /\ WF_vars(mx_worker_thread(w))

\* One worker serving GET requests for hosts "a" and "b", on the default
\* port and on port 8080.
InitPorts ==
    /\ InitThreads
    /\ create_cache
    /\ InitHandlers
    /\ InitTunnel
    /\ requests = {GetLine(<<97>>), GetLineOnPort(<<97>>),
                   GetLine(<<98>>), GetLineOnPort(<<98>>)}
    /\ malloc_fails = FALSE
    /\ c_capacity = g_max_cache_size
    /\ InitMutexes

NextPorts ==
    \/ \E w \in Serving : handle_request(w)
    \/ \E w \in Serving : get_from_cache(w)
    \/ \E w \in Serving : send_cached(w)
    \/ \E w \in Serving : fetch_origin(w)
    \/ \E w \in Serving : put_in_cache_enter(w)
    \/ \E w \in Serving : evict_lru(w)
    \/ \E w \in Serving : put_in_cache_insert(w)
    \/ \E w \in Serving : put_in_cache_unlock(w)
    \/ \E w \in Serving : finish_request(w)

SpecPorts == InitPorts /\ [][NextPorts]_vars

(***************************************************************************)
(* Properties of the cache                                                 *)
(***************************************************************************)
\* The nodes met from n along the next pointers, at most fuel of them.
RECURSIVE WalkNext(_, _)
WalkNext(n, fuel) ==
    IF n = NULL \/ fuel = 0 THEN <<>>
    ELSE <<n>> \o WalkNext(heap[n].next, fuel - 1)

\* The nodes met from n along the h_next pointers, at most fuel of them.
RECURSIVE WalkChain(_, _)
WalkChain(n, fuel) ==
    IF n = NULL \/ fuel = 0 THEN <<>>
    ELSE <<n>> \o WalkChain(heap[n].h_next, fuel - 1)

RecencyList == WalkNext(c_head, Cardinality(Nodes) + 1)
ChainOf(h) == WalkChain(c_table[h], Cardinality(Nodes) + 1)
Range(seq) == {seq[i] : i \in 1 .. Len(seq)}
NoRepeats(seq) == Cardinality(Range(seq)) = Len(seq)

RECURSIVE SumDataSize(_)
SumDataSize(seq) ==
    IF seq = <<>> THEN 0 ELSE heap[Head(seq)].data_size + SumDataSize(Tail(seq))

\* C1: the size counter is the sum of data_size over the resident entries
\* and at most the capacity; the recency list is a well-formed doubly-linked
\* list holding each entry once; the entries on it are exactly the entries
\* on the hash chains, each once and in the bucket of its key.
C1_CacheConsistent ==
    LET L == RecencyList IN
    /\ Len(L) <= Cardinality(Nodes)
    /\ NoRepeats(L)
    /\ (c_head = NULL) = (c_tail = NULL)
    /\ L # <<>> => /\ heap[L[1]].prev = NULL
                   /\ c_tail = L[Len(L)]
                   /\ \A i \in 2 .. Len(L) : heap[L[i]].prev = L[i - 1]
    /\ c_size = SumDataSize(L)
    /\ c_size <= g_max_cache_size
    /\ \A n \in Range(L) : heap[n].data_size = Len(heap[n].data)
    /\ \A h \in DOMAIN c_table :
          /\ Len(ChainOf(h)) <= Cardinality(Nodes)
          /\ NoRepeats(ChainOf(h))
          /\ \A n \in Range(ChainOf(h)) : Bucket(heap[n].key) = h
    /\ UNION {Range(ChainOf(h)) : h \in DOMAIN c_table} = Range(L)

\* Three entries are resident, two of them on one hash chain, after an
\* eviction, while a worker is between two requests.
C1_Witness ==
    /\ Len(RecencyList) = 3
    /\ \E h \in DOMAIN c_table : Len(ChainOf(h)) >= 2
    /\ evict_note # "none"
    /\ c_lock = Unlocked

\* C2: no two resident entries have the same key.
C2_NoDuplicateKeys ==
    \A n \in allocated : \A m \in allocated :
        n # m => heap[n].key # heap[m].key

\* C3: when the origin's response is longer than the element cap, the client
\* has received all of it once the request is finished, and no entry holding
\* a cut-off part of that response is in the cache.
C3_OversizeServedNotCached ==
    \A w \in Workers :
        (h_pc[w] = "done" /\ Len(h_resp[w]) > g_max_element_size) =>
            /\ h_client[w] = h_resp[w]
            /\ \A n \in allocated :
                  ~(/\ heap[n].key = h_key[w]
                    /\ Len(heap[n].data) < Len(h_resp[w])
                    /\ IsPrefix(heap[n].data, h_resp[w]))

\* C7: the recency list runs from the entry accessed last (inserted or
\* hit) at the head to the entry accessed longest ago at the tail, and the
\* entry an eviction removes is the resident entry accessed longest ago.
C7_EvictsLeastRecent ==
    /\ [](RecencyList = access_order)
    /\ [][\A n \in allocated :
            n \notin allocated' =>
                /\ n = access_order[Len(access_order)]
                /\ allocated' = allocated \ {n}]_vars

\* An entry was evicted although an entry inserted before it is still
\* resident: a hit had moved the older entry to the front.
C7_Witness ==
    /\ evict_note = "not_oldest"
    /\ allocated # {}
    /\ \E w \in Workers : h_pc[w] = "put_locked" /\ c_lock = w

\* C8: a get_from_cache(k) that follows an insertion for k whose entry has
\* not been evicted returns the entry holding the bytes of the latest
\* insertion for k.
C8_GetReturnsLastPut ==
    [][\A w \in Workers :
          (/\ h_pc[w] = "get"
           /\ h_pc'[w] # "get"
           /\ last_put[h_key[w]] # NoPut) =>
              /\ h_item'[w] = last_put[h_key[w]].node
              /\ heap'[h_item'[w]].data = last_put[h_key[w]].data
              /\ heap'[h_item'[w]].data_size = Len(last_put[h_key[w]].data)]_vars

\* A worker got a hit on a key that two entries hold with different bytes
\* (two workers missed on it and both inserted).
C8_Witness ==
    \E w \in Workers :
        /\ h_pc[w] = "send_cached"
        /\ h_item[w] \in allocated
        /\ last_put[h_key[w]] # NoPut
        /\ heap[h_item[w]].data = last_put[h_key[w]].data
        /\ \E m \in allocated \ {h_item[w]} :
              /\ heap[m].key = h_key[w]
              /\ heap[m].data # heap[h_item[w]].data

\* C11: one worker, empty cache at the start.  While the second request is
\* being served, if it is a GET whose key the first request inserted and it
\* has not itself been forwarded to an origin, then it is a hit: the worker
\* is never on the fetch path, resolves nothing, connects to nothing, and
\* when it is finished the client has the bytes the first request stored
\* (the bytes the first client was sent) and the cache's size is their
\* length.
C11_SecondGetIsHit ==
    \A w \in Workers :
        (/\ n_req = 2
         /\ h_req[w].method = GET
         /\ ~is_blacklisted(h_req[w].host)
         /\ last_put[cache_key(h_req[w])] # NoPut
         /\ "forward" \notin h_did[w]) =>
            /\ h_pc[w] \in {"get", "send_cached", "done"}
            /\ h_did[w] \subseteq {"lookup"}
            /\ h_pc[w] = "done" =>
                  /\ h_client[w] = last_put[cache_key(h_req[w])].data
                  /\ c_size = Len(h_client[w])
                  /\ Cardinality(allocated) = 1

\* The second of two identical GETs is finished: it was served from the
\* entry the first one inserted.
C11_Witness ==
    \E w \in Workers :
        /\ n_req = 2
        /\ h_pc[w] = "done"
        /\ h_req[w].method = GET
        /\ last_put[cache_key(h_req[w])] # NoPut
        /\ h_did[w] \subseteq {"lookup"}
        /\ h_client[w] = last_put[cache_key(h_req[w])].data
        /\ h_client[w] # <<>>

\* C17: a thread that is inside a log_message, send or recv call does not
\* own cache->lock.
C17_NoLockAcrossLogOrSocket ==
    \A w \in Workers :
        h_pc[w] \in {"put_log", "send_cached", "fetch", "connect",
                     "select", "relay_client", "relay_origin"} => c_lock # w

\* C19: a failed allocation inside put_in_cache skips the insertion and
\* nothing else: the worker goes on (the process is not brought down), and
\* no entry without its key is linked into the list or a bucket.
C19_FailedAllocationSkipsInsert ==
    /\ \A w \in Workers : h_pc[w] # "crashed"
    /\ \A n \in allocated : heap[n].key # NullStr
    /\ \A n \in Range(RecencyList) : heap[n].key # NullStr

\* C15: a worker that got a hit and has not yet sent the payload refers to
\* an entry that is still resident and still holds the key it looked up: the
\* entry was not evicted and freed after get_from_cache released the lock.
C15_HitEntryStillResident ==
    \A w \in Workers :
        h_pc[w] = "send_cached" =>
            /\ h_item[w] \in allocated
            /\ heap[h_item[w]].key = h_key[w]

(***************************************************************************)
(* Properties of request dispatch and of the tunnel                        *)
(***************************************************************************)
\* needle occurs in haystack
Contains(haystack, needle) ==
    \E i \in 1 .. Len(haystack) + 1 :
        /\ i + Len(needle) - 1 <= Len(haystack)
        /\ SubSeq(haystack, i, i + Len(needle) - 1) = needle

Listed(host) == \E i \in 1 .. Len(blacklist) : Contains(host, blacklist[i])

\* C9: a request whose host contains a blacklist entry is answered with the
\* 403 response and nothing else is done for it (no cache lookup, no name
\* resolution, no connection); a request whose host contains none is not
\* answered with the 403.
C9_BlacklistBlocks ==
    \A w \in Workers :
        h_req[w] # NoRequest =>
            /\ Listed(h_req[w].host) =>
                  /\ h_client[w] = Forbidden
                  /\ h_did[w] = {}
                  /\ h_pc[w] = "done"
            /\ ~Listed(h_req[w].host) => h_client[w] # Forbidden

\* A CONNECT to a host that contains a blacklist entry after its first
\* character was answered with the 403, after other requests were served.
C9_Witness ==
    \E w \in Workers :
        /\ h_req[w].method = CONNECT
        /\ h_req[w].host = <<97, 120>>
        /\ h_client[w] = Forbidden
        /\ n_req >= 2
        /\ allocated # {}

\* C10: in a tunnel, the bytes written to the origin are a prefix of the
\* bytes read from the client, and the bytes written to the client are a
\* prefix of the bytes read from the origin.
C10_TunnelRelaysVerbatim ==
    \A w \in Workers :
        /\ IsPrefix(t_o_sent[w], t_c_read[w])
        /\ IsPrefix(t_c_sent[w], t_o_read[w])

\* C21: every call of put_in_cache with data_size <= g_max_element_size
\* returns with cache->lock released, whatever the configured capacity.
C21_PutTerminates ==
    \A w \in Workers :
        (h_pc[w] = "put" /\ Len(h_buf[w]) <= g_max_element_size)
            ~> (h_pc[w] = "done" /\ c_lock # w)

(***************************************************************************)
(* Properties of the three mutexes                                         *)
(***************************************************************************)
\* A thread inside pthread_mutex_lock(m) holds nothing, except that it may
\* hold cache->lock when m is log_mutex: task_queue.lock and log_mutex are
\* never held while another mutex is acquired, and the only nested
\* acquisition is cache->lock then log_mutex.
LockOrder ==
    \A t \in Threads :
        LET m == WantedMutex(l_pc[t]) IN
        m # NoMutex =>
            /\ QueueLock \notin Held(t)
            /\ LogMutex \notin Held(t)
            /\ Held(t) # {} => (Held(t) = {CacheLock} /\ m = LogMutex)

\* No thread stays inside a call of pthread_mutex_lock for ever: a thread
\* leaves the call only as the owner of the mutex.
WaitersGetTheMutex ==
    \A t \in Threads : []<>(WantedMutex(l_pc[t]) = NoMutex)

\* C22: no interleaving of main and the workers deadlocks on the three
\* mutexes: the lock order above holds in every state, and every thread
\* that waits for a mutex eventually gets it.
C22_NoMutexDeadlock == []LockOrder /\ WaitersGetTheMutex

(***************************************************************************)
(* Properties of the cache key                                             *)
(***************************************************************************)
\* atoi on a string of decimal digits
RECURSIVE atoi_from(_, _, _)
atoi_from(str, i, n) ==
    IF i > Len(str) \/ str[i] < 48 \/ str[i] > 57 THEN n
    ELSE atoi_from(str, i + 1, 10 * n + (str[i] - 48))

\* int remote_port = req->port ? atoi(req->port) : 80;
remote_port(req) ==
    IF req.port = NullStr THEN 80 ELSE atoi_from(req.port, 1, 0)

\* C23: a GET is served from a cache entry only if the entry was inserted
\* by a GET with the same host, the same port and the same path; requests
\* that differ only in the port never share an entry.
C23_HitOnlyForSameHostPortPath ==
    \A w \in Workers :
        (h_pc[w] = "send_cached" /\ last_put[h_key[w]].node = h_item[w]) =>
            /\ last_put[h_key[w]].req.host = h_req[w].host
            /\ remote_port(last_put[h_key[w]].req) = remote_port(h_req[w])
            /\ last_put[h_key[w]].req.path = h_req[w].path

(***************************************************************************)
(* Properties of the parser                                                *)
(***************************************************************************)
\* The CONNECT lines of ParseInputs with their URI.
ConnectCases ==
    {[buffer |-> RequestBytes(g), uri |-> g.host \o g.port] : g \in ConnectPieces}

\* C12: when ParsedRequest_parse succeeds on a CONNECT line, host and port
\* are both set and non-empty, and they are the parts of the URI before and
\* after its last colon.
C12_ConnectHostAndPort ==
    \A w \in Workers : \A x \in ConnectCases :
        (h_buffer[w] = x.buffer /\ h_ret[w] = 0) =>
            /\ h_req[w].host # NullStr /\ Len(h_req[w].host) > 0
            /\ h_req[w].port # NullStr /\ Len(h_req[w].port) > 0
            /\ h_req[w].host \o <<58>> \o h_req[w].port = x.uri
            /\ \A i \in 1 .. Len(h_req[w].port) : h_req[w].port[i] # 58

\* The GET lines of ParseInputs of the form
\* "GET http://<host>[:<port>][<path>] HTTP/1.0", with the request the
\* origin is to receive for each.
WellFormedGets ==
    {[buffer   |-> RequestBytes(g),
      expected |-> GET \o <<32>> \o (IF g.path = <<>> THEN <<47>> ELSE g.path)
                       \o <<32>> \o g.version
                       \o <<13, 10, 72, 111, 115, 116, 58, 32>> \o g.host
                       \o <<13, 10, 67, 111, 110, 110, 101, 99, 116, 105, 111,
                            110, 58, 32, 99, 108, 111, 115, 101, 13, 10, 13, 10>>] :
        g \in {p \in GetPieces : /\ p.prefix = <<>>
                                 /\ p.scheme # <<>>
                                 /\ p.host # <<>>
                                 /\ p.port # <<58>>
                                 /\ p.sep = <<32>>
                                 /\ p.version # <<>>}}

\* C13: for a GET line "GET http://<host>[:<port>][<path>] <v>" the bytes
\* sent to the origin are exactly
\* "GET <path> <v>\r\nHost: <host>\r\nConnection: close\r\n\r\n", with "/"
\* for an absent path.
C13_ForwardedRequestExact ==
    \A w \in Workers : \A x \in WellFormedGets :
        (h_buffer[w] = x.buffer /\ "forward" \in h_did[w]) =>
            h_new_request[w] = x.expected

\* The first line of buf that is not empty (<<>> if there is none).
FirstLine(buf) ==
    LET line == strtok(buf, {13, 10}).token IN
    IF line = NullStr THEN <<>> ELSE line

\* How many space-delimited tokens the line has.
TokenCount(line) ==
    Cardinality({i \in 1 .. Len(line) :
                    line[i] # 32 /\ (i = 1 \/ line[i - 1] = 32)})

\* C14: ParsedRequest_parse fails on a first line of fewer than three tokens
\* and on a method other than GET and CONNECT; after a successful parse of a
\* GET the host is not empty and the path begins with "/"; after a failed
\* parse nothing is sent to the client, no origin is contacted, the cache is
\* not touched, and handle_request returns for the worker to close the
\* socket.
C14_ParseFailures ==
    \A w \in Workers :
        h_buffer[w] # <<>> =>
            LET line == FirstLine(h_buffer[w]) IN
            /\ TokenCount(line) < 3 => h_ret[w] < 0
            /\ strtok(line, {32}).token \notin {GET, CONNECT} => h_ret[w] < 0
            /\ (h_ret[w] = 0 /\ h_req[w].method = GET) =>
                  /\ h_req[w].host # NullStr /\ Len(h_req[w].host) > 0
                  /\ h_req[w].path # NullStr /\ Len(h_req[w].path) > 0
                  /\ h_req[w].path[1] = 47
            /\ h_ret[w] < 0 =>
                  /\ h_pc[w] = "done"
                  /\ h_client[w] = <<>>
                  /\ h_did[w] = {}
                  /\ h_new_request[w] = <<>>
                  /\ t_remote[w] = "none"
                  /\ allocated = {} /\ c_size = 0 /\ c_lock = Unlocked

\* The relay loop of handle_connect_request, from its test to its last send.
InRelayLoop(w) == h_pc[w] \in {"tunnel", "select", "relay_client", "relay_origin"}

\* C20: a started relay loop ends only from its test with the running flag
\* cleared, from a failed select, or from a recv or send that returned no
\* more than 0; a select that timed out goes back to the loop test; with the
\* flag cleared the loop test starts no further select; remote_socket is open
\* throughout the loop and every way out of handle_connect_request after
\* socket() closes it exactly once.
C20_TunnelEndsAndClosesOnce ==
    /\ [](\A w \in Workers :
            /\ t_remote[w] # "bad_close"
            /\ InRelayLoop(w) => t_remote[w] = "open"
            /\ h_pc[w] = "done" => t_remote[w] \in {"none", "closed"})
    /\ [][\A w \in Workers :
            /\ (InRelayLoop(w) /\ h_pc'[w] = "done") =>
                  /\ \/ h_pc[w] = "tunnel" /\ server_running = 0
                     \/ h_pc[w] = "select" /\ t_activity'[w] < 0
                     \/ /\ h_pc[w] \in {"relay_client", "relay_origin"}
                        /\ (t_bytes'[w] <= 0 \/ t_sent'[w] <= 0)
                  /\ t_remote[w] = "open"
                  /\ t_remote'[w] = "closed"
            /\ (h_pc[w] = "select" /\ h_pc'[w] # "select" /\ t_activity'[w] = 0) =>
                  h_pc'[w] = "tunnel"
            /\ (h_pc[w] = "tunnel" /\ h_pc'[w] # "tunnel" /\ server_running = 0) =>
                  h_pc'[w] = "done"
            /\ (h_pc[w] = "connect" /\ h_pc'[w] = "done") =>
                  (("connect" \in h_did'[w]) <=> (t_remote'[w] = "closed"))
       ]_vars

\* A tunnel relayed bytes, then its select timed out, the running flag was
\* cleared, and the loop ended with remote_socket closed.
C20_Witness ==
    \E w \in Workers :
        /\ h_pc[w] = "done"
        /\ h_client[w] = Established
        /\ server_running = 0
        /\ t_activity[w] = 0
        /\ Len(t_o_sent[w]) > 0
        /\ t_remote[w] = "closed"

(***************************************************************************)
(* Properties of the task queue and of shutdown                            *)
(***************************************************************************)
\* C4: once the running flag is cleared, main leaves the accept loop, every
\* worker returns from dequeue_task with the shutdown result and exits, and
\* main's joins complete.
C4_ShutdownCompletes ==
    (server_running = 0) ~> (a_pc = "done" /\ \A w \in Workers : w_pc[w] = "exited")

\* C16: no descriptor is handed to two workers or closed twice, and every
\* descriptor passed to enqueue_task is eventually closed by a worker.
C16_EveryDescriptorClosed ==
    /\ [](NoRepeats(deq_hist) /\ NoRepeats(closed))
    /\ \A fd \in 1 .. MaxConns :
          (fd \in Range(enq_hist)) ~> (fd \in Range(closed))

\* C18: a call of dequeue_task returns the shutdown result only when the
\* queue is empty and the flag is cleared; with a descriptor queued it
\* returns the descriptor at head and takes it off the queue, whatever the
\* flag; with the queue empty and the server running it waits on not_empty.
C18_DequeueResult ==
    [][\A w \in Workers :
          (w_pc[w] \in {"dequeue", "woken"} /\ w_pc'[w] # w_pc[w]) =>
              /\ w_pc'[w] = "exited" => (q_size = 0 /\ server_running = 0)
              /\ q_size > 0 =>
                    /\ w_pc'[w] = "handle"
                    /\ w_sock'[w] = sockets[q_head]
                    /\ q_size' = q_size - 1
                    /\ q_head' = (q_head + 1) % MAX_CLIENTS
              /\ (q_size = 0 /\ server_running = 1) =>
                    /\ w_pc'[w] = "prewait"
                    /\ q_size' = 0]_vars

\* After the flag was cleared one worker has left with the shutdown result
\* and another has been handed a descriptor, while a descriptor enqueued
\* since is still in the queue.
C18_Witness ==
    /\ server_running = 0
    /\ q_size > 0
    /\ \E w \in Workers : w_pc[w] = "exited"
    /\ \E w \in Workers : w_pc[w] = "handle"

\* C5: the descriptors returned by dequeue_task, in the order the dequeues
\* took the queue lock, are a prefix of the descriptors passed to
\* enqueue_task in order.
C5_FifoOrder == IsPrefix(deq_hist, enq_hist)

\* Two workers have each been handed a descriptor while a third descriptor
\* is still queued.
C5_Witness ==
    /\ Len(deq_hist) >= 2
    /\ Len(enq_hist) > Len(deq_hist)
    /\ \E w \in Workers : w_pc[w] = "handle" /\ w_sock[w] = deq_hist[Len(deq_hist)]

C6_QueueShape ==
    /\ 0 <= q_size /\ q_size <= MAX_CLIENTS
    /\ q_head \in 0 .. MAX_CLIENTS - 1
    /\ q_tail \in 0 .. MAX_CLIENTS - 1
    /\ q_tail = (q_head + q_size) % MAX_CLIENTS

\* C6: 0 <= size <= capacity, head and tail are inside the buffer and
\* tail = (head + size) mod capacity; while the queue is full no slot is
\* written and enqueue_task blocks on not_full until a dequeue frees a slot.
C6_QueueBounded ==
    /\ [](C6_QueueShape)
    /\ [][q_size = MAX_CLIENTS =>
            /\ sockets' = sockets
            /\ q_tail' = q_tail
            /\ enq_hist' = enq_hist
            /\ (a_pc \in {"enqueue", "enq_woken"} /\ a_pc' # a_pc => a_pc' = "enq_wait")]_vars

\* The queue is full and main is blocked inside enqueue_task.
C6_Witness ==
    /\ q_size = MAX_CLIENTS
    /\ a_pc = "enq_wait"
    /\ Main \in not_full

====
